---------------------------- MODULE Spec2Model ----------------------------
(***************************************************************************)
(* Server-side OPC UA Subscription (node-opcua-server/src/subscription.js) *)
(* as a state machine.  Every handler of the class is an operator from a   *)
(* "world" record to the world after the call; an action applies one       *)
(* handler to the current world.  The world holds the Subscription object, *)
(* the publish engine it talks to, the monitored items' notification       *)
(* buffers, the event loop's immediates and the trace of the call.         *)
(*                                                                         *)
(* The second part is the acknowledgeable condition                        *)
(* (ua_acknowledgeable_condition_base.js): a condition node with its       *)
(* branches (ConditionSnapshot), handled the same way.                     *)
(*                                                                         *)
(* Left out of the Subscription object: the wall-clock fields (publishTime)*)
(* and start_tick of a queued message (only notificationHasExpired reads   *)
(* it, and nothing calls that), the session, the diagnostics counters      *)
(* other than modifyCount, priority and id.                                *)
(***************************************************************************)
EXTENDS Integers, Sequences, FiniteSets, TLC

VARIABLES
    subscription,      \* the Subscription object's fields (monitoredItems holds the items)
    publishEngine,     \* the publish engine: pendingPublishRequestCount
    g_monitoredItemId, \* the module-level id counter of monitored items
    immediate,         \* number of _tick calls queued with setImmediate
    out,               \* events emitted / engine calls / status returned by the last call
    hist,              \* history: the constructor's options, the last number
                       \* dispatched, the numbers acknowledged and discarded
    condition          \* an acknowledgeable condition node and its branches

vars == <<subscription, publishEngine, g_monitoredItemId, immediate, out, hist,
          condition>>

---------------------------------------------------------------------------
(* Bounds of the model *)

\* ticks of the publishing timer in one run
MaxTicks == 6
\* notifications the monitored items deliver in one run (each allocates at most one number)
MaxSeq == 2
\* publish requests queued in the publish engine at one time
MaxRequests == 1
\* monitored items created in one run
MaxItems == 1
\* modify calls in one run
MaxModify == 1
\* notification messages of the busy-client run (SpecRetransmit)
MaxSeqR == 103
\* the busy client acknowledges only the first MaxAckR messages
MaxAckR == 2

---------------------------------------------------------------------------
(* Program constants *)

minimumPublishingInterval == 50
defaultPublishingInterval == 1000
maximumPublishingInterval == 1000 * 60 * 60 * 24 * 15
minimumMaxKeepAliveCount == 2
maximumMaxKeepAliveCount == 12000
maxNotificationMessagesInQueue == 100

Max(a, b) == IF a >= b THEN a ELSE b
Min(a, b) == IF a <= b THEN a ELSE b

\* Math.ceil(a / b) for positive integers
Ceil(a, b) == (a + b - 1) \div b

\* JavaScript's  x || d  on numbers: 0 (like undefined) is falsy
OrElse(x, d) == IF x = 0 THEN d ELSE x

---------------------------------------------------------------------------
(* Parameter adjustment *)

_adjust_publishing_interval(publishingInterval) ==
    Min(Max(OrElse(publishingInterval, defaultPublishingInterval),
            minimumPublishingInterval),
        maximumPublishingInterval)

_adjust_maxKeepAliveCount(maxKeepAliveCount) ==
    Min(Max(OrElse(maxKeepAliveCount, minimumMaxKeepAliveCount),
            minimumMaxKeepAliveCount),
        maximumMaxKeepAliveCount)

\* variant: without the five-second minimum
_adjust_lifeTimeCount_nominimum(lifeTimeCount, maxKeepAliveCount, publishingInterval) ==
    LET l1 == OrElse(lifeTimeCount, 1)
    IN  Max(l1, maxKeepAliveCount * 3)

\* variant: without the three keep-alive periods
_adjust_lifeTimeCount_nothree(lifeTimeCount, maxKeepAliveCount, publishingInterval) ==
    LET l1 == OrElse(lifeTimeCount, 1)
        minTicks == Ceil(5 * 1000, publishingInterval)
    IN  Max(minTicks, l1)

_adjust_lifeTimeCount(lifeTimeCount, maxKeepAliveCount, publishingInterval) ==
    LET l1 == OrElse(lifeTimeCount, 1)
        l2 == Max(l1, maxKeepAliveCount * 3)
        minTicks == Ceil(5 * 1000, publishingInterval)
    IN  Max(minTicks, l2)

_adjust_maxNotificationsPerPublish(maxNotificationsPerPublish) ==
    IF maxNotificationsPerPublish >= 0 THEN maxNotificationsPerPublish ELSE 0

---------------------------------------------------------------------------
(* The sequence number generator (node-opcua-secure-channel): next()       *)
(* returns the counter and advances it, future() peeks.  It starts at 1.   *)

SequenceNumberGenerator == 1

_get_future_sequence_number(w) == w.sub._sequence_number_generator

\* the world after next(); the number handed out is _get_future_sequence_number(w)
_get_next_sequence_number(w) ==
    [w EXCEPT !.sub._sequence_number_generator = @ + 1]


---------------------------------------------------------------------------
(* The trace of one call: every entry is [call, name, arg] *)

emit(w, event, arg) ==
    [w EXCEPT !.out = Append(@, [call |-> "emit", name |-> event, arg |-> arg])]

return(w, op, status) ==
    [w EXCEPT !.out = Append(@, [call |-> "return", name |-> op, arg |-> status])]

---------------------------------------------------------------------------
(* What a publish response reports as still available for retransmission *)

getSequenceNumbers(arr) == [i \in 1..Len(arr) |-> arr[i].sequenceNumber]

getAvailableSequenceNumbers(w) == getSequenceNumbers(w.sub._sent_notifications)

---------------------------------------------------------------------------
(* The publish engine (server_publish_engine.js), by its interface: it     *)
(* holds the queued publish requests, and a response consumes one.  The    *)
(* trace entry of a response records what getAvailableSequenceNumbers      *)
(* returns at the moment of the call.                                      *)

send_notification_message(w, response, initial) ==
    [w EXCEPT !.pe.pendingPublishRequestCount = IF @ > 0 THEN @ - 1 ELSE @,
              !.out = Append(@, [call |-> "publishEngine",
                                 name |-> "send_notification_message",
                                 arg  |-> [sequenceNumber    |-> response.sequenceNumber,
                                           notificationData  |-> response.notificationData,
                                           moreNotifications |-> response.moreNotifications,
                                           initial           |-> initial,
                                           availableSequenceNumbers |->
                                               getAvailableSequenceNumbers(w)]]),
              !.hist.lastSent = IF initial THEN @ ELSE response.sequenceNumber]

\* TRUE iff a publish request is there to carry the keep-alive
send_keep_alive_response_result(w) == w.pe.pendingPublishRequestCount > 0

send_keep_alive_response(w, future_sequence_number) ==
    [w EXCEPT !.pe.pendingPublishRequestCount = IF @ > 0 THEN @ - 1 ELSE @,
              !.out = Append(@, [call |-> "publishEngine",
                                 name |-> "send_keep_alive_response",
                                 arg  |-> [sequenceNumber |-> future_sequence_number,
                                           result |-> send_keep_alive_response_result(w)]])]

on_close_subscription(w) ==
    [w EXCEPT !.out = Append(@, [call |-> "publishEngine",
                                 name |-> "on_close_subscription", arg |-> 0])]

---------------------------------------------------------------------------
(* Monitored items (monitored_item.js), by the contract the subscription   *)
(* uses: a buffer of notifications, drained by                             *)
(* extractMonitoredItemNotifications.                                      *)

MonitoredItem(attributeId) == [attributeId |-> attributeId, queue |-> <<>>]

\* the notification an item produces: a data change for Value, else an event
NotificationOf(id, item) ==
    [class |-> IF item.attributeId = "Value" THEN "MonitoredItemNotification"
               ELSE "EventFieldList",
     item  |-> id]

item_hasMonitoredItemNotifications(item) == item.queue # <<>>

\* ids in the order Object.keys gives integer keys: ascending
RECURSIVE KeysOf(_)
KeysOf(S) ==
    IF S = {} THEN <<>>
    ELSE LET k == CHOOSE x \in S : \A y \in S : x <= y
         IN  <<k>> \o KeysOf(S \ {k})

RECURSIVE ExtractAll_reverse(_, _)
\* variant: the items are visited from the last key to the first
ExtractAll_reverse(items, keys) ==
    IF keys = <<>> THEN <<>>
    ELSE ExtractAll_reverse(items, Tail(keys)) \o items[Head(keys)].queue

RECURSIVE ExtractAll(_, _)
ExtractAll(items, keys) ==
    IF keys = <<>> THEN <<>>
    ELSE items[Head(keys)].queue \o ExtractAll(items, Tail(keys))

---------------------------------------------------------------------------
(* Counters and getters of the Subscription *)

resetKeepAliveCounter(w) == [w EXCEPT !.sub._keep_alive_counter = 0]

increaseKeepAliveCounter(w) == [w EXCEPT !.sub._keep_alive_counter = @ + 1]

\* variant: expires one period late
keepAliveCounterHasExpired_late(w) == w.sub._keep_alive_counter > w.sub.maxKeepAliveCount

keepAliveCounterHasExpired(w) ==
    w.sub._keep_alive_counter >= w.sub.maxKeepAliveCount

resetLifeTimeCounter(w) == [w EXCEPT !.sub._life_time_counter = 0]

\* variant: the life-time counter advances by three per tick
increaseLifeTimeCounter_bythree(w) == [w EXCEPT !.sub._life_time_counter = @ + 3]

increaseLifeTimeCounter(w) == [w EXCEPT !.sub._life_time_counter = @ + 1]

\* variant: expires one tick late
lifeTimeHasExpired_late(w) == w.sub._life_time_counter > w.sub.lifeTimeCount

lifeTimeHasExpired(w) == w.sub._life_time_counter >= w.sub.lifeTimeCount

resetLifeTimeAndKeepAliveCounters(w) ==
    resetKeepAliveCounter(resetLifeTimeCounter(w))

hasPendingNotifications(w) == Len(w.sub._pending_notifications) > 0

\* the value of the getter hasMonitoredItemNotifications
hasMonitoredItemNotifications(w) ==
    \/ w.sub._hasMonitoredItemNotifications
    \/ \E id \in DOMAIN w.sub.monitoredItems :
           item_hasMonitoredItemNotifications(w.sub.monitoredItems[id])

\* the world after the getter ran: it caches a TRUE answer
get_hasMonitoredItemNotifications(w) ==
    IF hasMonitoredItemNotifications(w)
    THEN [w EXCEPT !.sub._hasMonitoredItemNotifications = TRUE]
    ELSE w

unacknowledgedMessageCount(w) == w.sub._unacknowledgedMessageCount

---------------------------------------------------------------------------
(* Timer *)

_stop_timer(w) == [w EXCEPT !.sub.timerId = "null"]

_start_timer(w) ==
    [w EXCEPT !.sub._keep_alive_counter = w.sub.maxKeepAliveCount,
              !.sub.timerId = "interval"]

---------------------------------------------------------------------------
(* Constructor *)

\* variant: the first publishing cycle waits for the keep-alive count like any other
Subscription_nofirstkeepalive(options) ==
    LET publishingInterval == _adjust_publishing_interval(options.publishingInterval)
        maxKeepAliveCount  == _adjust_maxKeepAliveCount(options.maxKeepAliveCount)
        lifeTimeCount      == _adjust_lifeTimeCount(options.lifeTimeCount,
                                                    maxKeepAliveCount, publishingInterval)
    IN  [publishingInterval |-> publishingInterval,
         maxKeepAliveCount  |-> maxKeepAliveCount,
         lifeTimeCount      |-> lifeTimeCount,
         maxNotificationsPerPublish |->
             _adjust_maxNotificationsPerPublish(options.maxNotificationsPerPublish),
         _keep_alive_counter |-> 0,
         _life_time_counter  |-> 0,
         _pending_notifications |-> <<>>,
         _sent_notifications    |-> <<>>,
         _sequence_number_generator |-> SequenceNumberGenerator,
         state |-> "CREATING",
         publishIntervalCount |-> 0,
         monitoredItems |-> <<>>,
         monitoredItemIdCounter |-> 0,
         publishingEnabled |-> options.publishingEnabled,
         modifyCount |-> 0,
         messageSent |-> FALSE,
         _unacknowledgedMessageCount |-> 0,
         _hasMonitoredItemNotifications |-> FALSE,
         timerId |-> "interval"]

Subscription(options) ==
    LET publishingInterval == _adjust_publishing_interval(options.publishingInterval)
        maxKeepAliveCount  == _adjust_maxKeepAliveCount(options.maxKeepAliveCount)
        lifeTimeCount      == _adjust_lifeTimeCount(options.lifeTimeCount,
                                                    maxKeepAliveCount, publishingInterval)
    IN  [publishingInterval |-> publishingInterval,
         maxKeepAliveCount  |-> maxKeepAliveCount,
         lifeTimeCount      |-> lifeTimeCount,
         maxNotificationsPerPublish |->
             _adjust_maxNotificationsPerPublish(options.maxNotificationsPerPublish),
         _keep_alive_counter |-> maxKeepAliveCount,
         _life_time_counter  |-> 0,
         _pending_notifications |-> <<>>,
         _sent_notifications    |-> <<>>,
         _sequence_number_generator |-> SequenceNumberGenerator,
         state |-> "CREATING",
         publishIntervalCount |-> 0,
         monitoredItems |-> <<>>,
         monitoredItemIdCounter |-> 0,
         publishingEnabled |-> options.publishingEnabled,
         modifyCount |-> 0,
         messageSent |-> FALSE,
         _unacknowledgedMessageCount |-> 0,
         _hasMonitoredItemNotifications |-> FALSE,
         timerId |-> "interval"]


---------------------------------------------------------------------------
(* Notification messages and the two queues *)

StatusChangeNotification(statusCode) ==
    [type |-> "StatusChangeNotification", data |-> statusCode]

DataChangeNotification(monitoredItems) ==
    [type |-> "DataChangeNotification", data |-> monitoredItems]

EventNotificationList(events) ==
    [type |-> "EventNotificationList", data |-> events]

\* variant: the new message goes to the front of the pending queue
_addNotificationMessage_front(w, notificationData) ==
    LET notification_message ==
            [sequenceNumber   |-> _get_future_sequence_number(w),
             notificationData |-> notificationData]
    IN  [_get_next_sequence_number(w) EXCEPT
            !.sub._pending_notifications = <<notification_message>> \o @]

_addNotificationMessage(w, notificationData) ==
    LET notification_message ==
            [sequenceNumber   |-> _get_future_sequence_number(w),
             notificationData |-> notificationData]
    IN  [_get_next_sequence_number(w) EXCEPT
            !.sub._pending_notifications = Append(@, notification_message)]

\* variant: takes the newest pending message instead of the oldest
_popNotificationToSend_newest(w) ==
    LET pending == w.sub._pending_notifications
        notification_message == pending[Len(pending)]
    IN  [world |-> [w EXCEPT !.sub._pending_notifications =
                                 SubSeq(pending, 1, Len(pending) - 1),
                             !.sub._sent_notifications =
                                 Append(@, notification_message)],
         notification_message |-> notification_message]

\* variant: reads the head of pending without shifting it
_popNotificationToSend_noshift(w) ==
    LET notification_message == Head(w.sub._pending_notifications)
    IN  [world |-> [w EXCEPT !.sub._sent_notifications =
                                 Append(@, notification_message)],
         notification_message |-> notification_message]

\* shift the head of pending, push it on sent, and hand it back
_popNotificationToSend(w) ==
    LET notification_message == Head(w.sub._pending_notifications)
    IN  [world |-> [w EXCEPT !.sub._pending_notifications = Tail(@),
                             !.sub._sent_notifications =
                                 Append(@, notification_message)],
         notification_message |-> notification_message]

\* what getMessageForSequenceNumber returns when nothing is found
null == [sequenceNumber |-> -1, notificationData |-> <<>>]

getMessageForSequenceNumber(w, sequenceNumber) ==
    LET hits == SelectSeq(w.sub._sent_notifications,
                          LAMBDA e : e.sequenceNumber = sequenceNumber)
    IN  IF hits = <<>> THEN null ELSE Head(hits)

\* variant: the queue is cut only once it holds more than
\* maxNotificationMessagesInQueue entries
discardOldSentNotifications_late(w) ==
    LET sent == w.sub._sent_notifications
        keep == Len(sent) - maxNotificationMessagesInQueue
    IN  IF maxNotificationMessagesInQueue < Len(sent)
        THEN [w EXCEPT
                !.sub._sent_notifications = SubSeq(sent, 1, keep),
                !.hist.discarded =
                    @ \cup {sent[i].sequenceNumber : i \in (keep + 1)..Len(sent)}]
        ELSE w

discardOldSentNotifications(w) ==
    LET sent == w.sub._sent_notifications
        keep == Len(sent) - maxNotificationMessagesInQueue
    IN  IF maxNotificationMessagesInQueue <= Len(sent)
        THEN [w EXCEPT
                !.sub._sent_notifications = SubSeq(sent, 1, keep),
                !.hist.discarded =
                    @ \cup {sent[i].sequenceNumber : i \in (keep + 1)..Len(sent)}]
        ELSE w

\* index of the entry the search of acknowledgeNotification ends on (the last
\* one with that number), or -1
foundIndexOf(sent, sequenceNumber) ==
    LET hits == {i \in 1..Len(sent) : sent[i].sequenceNumber = sequenceNumber}
    IN  IF hits = {} THEN -1 ELSE CHOOSE i \in hits : \A j \in hits : j <= i

\* variant: removes the entry but leaves the counter alone
acknowledgeNotification_nocount(w, sequenceNumber) ==
    LET sent == w.sub._sent_notifications
        foundIndex == foundIndexOf(sent, sequenceNumber)
    IN  IF foundIndex = -1
        THEN return(w, "acknowledgeNotification", "BadSequenceNumberUnknown")
        ELSE return([w EXCEPT
                        !.sub._sent_notifications =
                            SubSeq(sent, 1, foundIndex - 1)
                                \o SubSeq(sent, foundIndex + 1, Len(sent)),
                        !.hist.acked = @ \cup {sequenceNumber}],
                    "acknowledgeNotification", "Good")

\* variant: removes the oldest entry instead of the one found
acknowledgeNotification_oldest(w, sequenceNumber) ==
    LET sent == w.sub._sent_notifications
        foundIndex == foundIndexOf(sent, sequenceNumber)
    IN  IF foundIndex = -1
        THEN return(w, "acknowledgeNotification", "BadSequenceNumberUnknown")
        ELSE return([w EXCEPT
                        !.sub._sent_notifications = Tail(sent),
                        !.sub._unacknowledgedMessageCount = @ - 1,
                        !.hist.acked = @ \cup {sequenceNumber}],
                    "acknowledgeNotification", "Good")

acknowledgeNotification(w, sequenceNumber) ==
    LET sent == w.sub._sent_notifications
        foundIndex == foundIndexOf(sent, sequenceNumber)
    IN  IF foundIndex = -1
        THEN return(w, "acknowledgeNotification", "BadSequenceNumberUnknown")
        ELSE return([w EXCEPT
                        !.sub._sent_notifications =
                            SubSeq(sent, 1, foundIndex - 1)
                                \o SubSeq(sent, foundIndex + 1, Len(sent)),
                        !.sub._unacknowledgedMessageCount = @ - 1,
                        !.hist.acked = @ \cup {sequenceNumber}],
                    "acknowledgeNotification", "Good")

---------------------------------------------------------------------------
(* Harvest *)

RECURSIVE Chunks_onemore(_, _)
\* variant: every chunk may take one notification more than the maximum
Chunks_onemore(all_notifications, maxNotificationsPerPublish) ==
    IF all_notifications = <<>> THEN <<>>
    ELSE LET n == IF maxNotificationsPerPublish = 0 THEN Len(all_notifications)
                  ELSE Min(Len(all_notifications), maxNotificationsPerPublish + 1)
         IN  <<SubSeq(all_notifications, 1, n)>>
                 \o Chunks_onemore(SubSeq(all_notifications, n + 1, Len(all_notifications)),
                                   maxNotificationsPerPublish)

RECURSIVE Chunks(_, _)
\* the successive results of extract_notifications_chunk until the list is empty
Chunks(all_notifications, maxNotificationsPerPublish) ==
    IF all_notifications = <<>> THEN <<>>
    ELSE LET n == IF maxNotificationsPerPublish = 0 THEN Len(all_notifications)
                  ELSE Min(Len(all_notifications), maxNotificationsPerPublish)
         IN  <<SubSeq(all_notifications, 1, n)>>
                 \o Chunks(SubSeq(all_notifications, n + 1, Len(all_notifications)),
                           maxNotificationsPerPublish)

\* the 1 or 2 notification objects made of one chunk: data changes first
NotificationsOfChunk(notifications_chunk) ==
    LET dataChangedNotificationData ==
            SelectSeq(notifications_chunk,
                      LAMBDA e : e.class = "MonitoredItemNotification")
        eventNotificationListData ==
            SelectSeq(notifications_chunk, LAMBDA e : e.class = "EventFieldList")
    IN  (IF dataChangedNotificationData # <<>>
         THEN <<DataChangeNotification(dataChangedNotificationData)>> ELSE <<>>)
        \o
        (IF eventNotificationListData # <<>>
         THEN <<EventNotificationList(eventNotificationListData)>> ELSE <<>>)

\* the list of notificationData arrays _collectNotificationData returns
_collectNotificationData_result(w) ==
    LET all == ExtractAll(w.sub.monitoredItems, KeysOf(DOMAIN w.sub.monitoredItems))
        chunks == Chunks(all, w.sub.maxNotificationsPerPublish)
    IN  [i \in 1..Len(chunks) |-> NotificationsOfChunk(chunks[i])]

\* the world after _collectNotificationData: cache reset, every buffer drained
_collectNotificationData(w) ==
    [w EXCEPT !.sub._hasMonitoredItemNotifications = FALSE,
              !.sub.monitoredItems =
                  [id \in DOMAIN @ |-> [@[id] EXCEPT !.queue = <<>>]]]

RECURSIVE AddAll(_, _)
AddAll(w, notificationData) ==
    IF notificationData = <<>> THEN w
    ELSE AddAll(_addNotificationMessage(w, Head(notificationData)),
                Tail(notificationData))

_harvestMonitoredItems(w) ==
    LET notificationData == _collectNotificationData_result(w)
        w1 == AddAll(_collectNotificationData(w), notificationData)
    IN  [w1 EXCEPT !.sub._hasMonitoredItemNotifications = FALSE]


---------------------------------------------------------------------------
(* Publishing *)

\* variant: sends the message but leaves the two counters running
_publish_pending_notifications_noreset(w) ==
    LET w1 == emit(w, "notification", 0)
        popped == _popNotificationToSend(w1)
        notificationMessage == popped.notification_message
        w2 == emit(popped.world, "notificationMessage",
                   notificationMessage.sequenceNumber)
        moreNotifications == hasPendingNotifications(w2)
        w3 == send_notification_message(w2,
                  [sequenceNumber    |-> notificationMessage.sequenceNumber,
                   notificationData  |-> notificationMessage.notificationData,
                   moreNotifications |-> moreNotifications], FALSE)
        w4 == [w3 EXCEPT !.sub.messageSent = TRUE,
                         !.sub._unacknowledgedMessageCount = @ + 1]
    IN  IF w4.sub.state # "CLOSED"
        THEN [w4 EXCEPT !.sub.state = "NORMAL"]
        ELSE w4

\* variant: hands the message over first and moves it to sent afterwards
_publish_pending_notifications_sendfirst(w) ==
    LET w1 == emit(w, "notification", 0)
        notificationMessage == Head(w1.sub._pending_notifications)
        w2 == emit(w1, "notificationMessage", notificationMessage.sequenceNumber)
        moreNotifications == Len(w2.sub._pending_notifications) > 1
        w3 == _popNotificationToSend(send_notification_message(w2,
                  [sequenceNumber    |-> notificationMessage.sequenceNumber,
                   notificationData  |-> notificationMessage.notificationData,
                   moreNotifications |-> moreNotifications], FALSE)).world
        w4 == resetLifeTimeAndKeepAliveCounters(
                  [w3 EXCEPT !.sub.messageSent = TRUE,
                             !.sub._unacknowledgedMessageCount = @ + 1])
    IN  IF w4.sub.state # "CLOSED"
        THEN [w4 EXCEPT !.sub.state = "NORMAL"]
        ELSE w4

_publish_pending_notifications(w) ==
    LET w1 == emit(w, "notification", 0)
        popped == _popNotificationToSend(w1)
        notificationMessage == popped.notification_message
        w2 == emit(popped.world, "notificationMessage",
                   notificationMessage.sequenceNumber)
        moreNotifications == hasPendingNotifications(w2)
        w3 == send_notification_message(w2,
                  [sequenceNumber    |-> notificationMessage.sequenceNumber,
                   notificationData  |-> notificationMessage.notificationData,
                   moreNotifications |-> moreNotifications], FALSE)
        w4 == resetLifeTimeAndKeepAliveCounters(
                  [w3 EXCEPT !.sub.messageSent = TRUE,
                             !.sub._unacknowledgedMessageCount = @ + 1])
    IN  IF w4.sub.state # "CLOSED"
        THEN [w4 EXCEPT !.sub.state = "NORMAL"]
        ELSE w4

\* TRUE iff _sendKeepAliveResponse returns true
_sendKeepAliveResponse_result(w) == send_keep_alive_response_result(w)

\* variant: the keep-alive takes its number with next() instead of future()
_sendKeepAliveResponse_consume(w) ==
    LET future_sequence_number == _get_future_sequence_number(w)
        w1 == send_keep_alive_response(_get_next_sequence_number(w),
                                       future_sequence_number)
    IN  IF send_keep_alive_response_result(w)
        THEN [emit([w1 EXCEPT !.sub.messageSent = TRUE],
                   "keepalive", future_sequence_number)
                 EXCEPT !.sub.state = "KEEPALIVE"]
        ELSE w1

_sendKeepAliveResponse(w) ==
    LET future_sequence_number == _get_future_sequence_number(w)
        w1 == send_keep_alive_response(w, future_sequence_number)
    IN  IF send_keep_alive_response_result(w)
        THEN [emit([w1 EXCEPT !.sub.messageSent = TRUE],
                   "keepalive", future_sequence_number)
                 EXCEPT !.sub.state = "KEEPALIVE"]
        ELSE w1

\* variant: resets the counters whether or not the keep-alive went out
_process_keepAlive_alwaysreset(w) ==
    LET w1 == increaseKeepAliveCounter(w)
    IN  IF keepAliveCounterHasExpired(w1)
        THEN IF _sendKeepAliveResponse_result(w1)
             THEN resetLifeTimeAndKeepAliveCounters(_sendKeepAliveResponse(w1))
             ELSE resetLifeTimeAndKeepAliveCounters(
                      [_sendKeepAliveResponse(w1) EXCEPT !.sub.state = "LATE"])
        ELSE w1

_process_keepAlive(w) ==
    LET w1 == increaseKeepAliveCounter(w)
    IN  IF keepAliveCounterHasExpired(w1)
        THEN IF _sendKeepAliveResponse_result(w1)
             THEN resetLifeTimeAndKeepAliveCounters(_sendKeepAliveResponse(w1))
             ELSE [_sendKeepAliveResponse(w1) EXCEPT !.sub.state = "LATE"]
        ELSE w1

\* variant: publishes whether or not publishing is enabled
process_subscription_nomodecheck(w) ==
    LET w1 == IF hasPendingNotifications(w) THEN w
              ELSE get_hasMonitoredItemNotifications(w)
        w2 == IF ~hasPendingNotifications(w) /\ hasMonitoredItemNotifications(w)
              THEN _harvestMonitoredItems(w1)
              ELSE w1
    IN  IF hasPendingNotifications(w2)
        THEN LET w3 == _publish_pending_notifications(w2)
             IN  IF w3.sub.state = "NORMAL" /\ hasPendingNotifications(w3)
                 THEN [w3 EXCEPT !.imm = @ + 1]
                 ELSE w3
        ELSE _process_keepAlive(w2)

\* variant: no immediate extra tick after a send that leaves messages pending
process_subscription_noimmediate(w) ==
    IF ~w.sub.publishingEnabled
    THEN _process_keepAlive(w)
    ELSE LET w1 == IF hasPendingNotifications(w) THEN w
                   ELSE get_hasMonitoredItemNotifications(w)
             w2 == IF ~hasPendingNotifications(w) /\ hasMonitoredItemNotifications(w)
                   THEN _harvestMonitoredItems(w1)
                   ELSE w1
         IN  IF hasPendingNotifications(w2)
             THEN _publish_pending_notifications(w2)
             ELSE _process_keepAlive(w2)

process_subscription(w) ==
    IF ~w.sub.publishingEnabled
    THEN _process_keepAlive(w)
    ELSE LET \* the getter runs only when nothing is pending
             w1 == IF hasPendingNotifications(w) THEN w
                   ELSE get_hasMonitoredItemNotifications(w)
             w2 == IF ~hasPendingNotifications(w) /\ hasMonitoredItemNotifications(w)
                   THEN _harvestMonitoredItems(w1)
                   ELSE w1
         IN  IF hasPendingNotifications(w2)
             THEN LET w3 == _publish_pending_notifications(w2)
                  IN  IF w3.sub.state = "NORMAL" /\ hasPendingNotifications(w3)
                      THEN [w3 EXCEPT !.imm = @ + 1]
                      ELSE w3
             ELSE _process_keepAlive(w2)

---------------------------------------------------------------------------
(* Monitored items of the subscription *)

removeMonitoredItem(w, monitoredItemId) ==
    IF monitoredItemId \notin DOMAIN w.sub.monitoredItems
    THEN return(w, "removeMonitoredItem", "BadMonitoredItemIdInvalid")
    ELSE return([emit(w, "removeMonitoredItem", monitoredItemId) EXCEPT
                    !.sub.monitoredItems =
                        [id \in DOMAIN @ \ {monitoredItemId} |-> @[id]]],
                "removeMonitoredItem", "Good")

RECURSIVE RemoveAll(_, _)
\* the loop of terminate over Object.keys(monitoredItems); the statuses are
\* asserted to be Good and not returned
RemoveAll(w, keys) ==
    IF keys = <<>> THEN w
    ELSE RemoveAll([removeMonitoredItem(w, Head(keys)) EXCEPT
                       !.out = SubSeq(@, 1, Len(@) - 1)],
                   Tail(keys))

terminate(w) ==
    IF w.sub.state = "CLOSED" THEN w
    ELSE LET w1 == _stop_timer(w)
             w2 == RemoveAll(w1, KeysOf(DOMAIN w1.sub.monitoredItems))
             w3 == [w2 EXCEPT !.sub.state = "CLOSED"]
         IN  on_close_subscription(emit(w3, "terminated", 0))

---------------------------------------------------------------------------
(* The publishing cycle *)

\* variant: without the LATE branch, a tick without publish request goes on
\* to the keep-alive procedure
_tick_nolate(w) ==
    IF w.sub.state = "CLOSED" THEN w
    ELSE
    LET w1 == discardOldSentNotifications(w)
        w2 == increaseLifeTimeCounter([w1 EXCEPT !.sub.publishIntervalCount = @ + 1])
    IN  IF lifeTimeHasExpired(w2)
        THEN terminate(_addNotificationMessage(emit(w2, "expired", 0),
                                <<StatusChangeNotification("BadTimeout")>>))
        ELSE LET noRequest == w2.pe.pendingPublishRequestCount = 0
                 w3 == IF hasPendingNotifications(w2) THEN w2
                       ELSE get_hasMonitoredItemNotifications(w2)
             IN IF noRequest
                THEN _process_keepAlive(w3)
                ELSE IF hasPendingNotifications(w2) THEN process_subscription(w2)
                     ELSE IF hasMonitoredItemNotifications(w2)
                          THEN process_subscription(w3) ELSE _process_keepAlive(w3)

\* variant: a tick that does not look at the state first
_tick_noclosedcheck(w) ==
    LET w1 == discardOldSentNotifications(w)
        w2 == increaseLifeTimeCounter([w1 EXCEPT !.sub.publishIntervalCount = @ + 1])
    IN  IF lifeTimeHasExpired(w2)
        THEN terminate(
                 _addNotificationMessage(emit(w2, "expired", 0),
                                         <<StatusChangeNotification("BadTimeout")>>))
        ELSE
        LET noRequest == w2.pe.pendingPublishRequestCount = 0
            w3 == IF hasPendingNotifications(w2) THEN w2
                  ELSE get_hasMonitoredItemNotifications(w2)
        IN  IF noRequest
            THEN IF hasPendingNotifications(w2) \/ hasMonitoredItemNotifications(w2)
                 THEN [w3 EXCEPT !.sub.state = "LATE"]
                 ELSE _process_keepAlive(w3)
            ELSE IF hasPendingNotifications(w2)
                 THEN process_subscription(w2)
                 ELSE IF hasMonitoredItemNotifications(w2)
                      THEN process_subscription(w3)
                      ELSE _process_keepAlive(w3)

_tick(w) ==
    IF w.sub.state = "CLOSED" THEN w
    ELSE
    LET w1 == discardOldSentNotifications(w)
        w2 == increaseLifeTimeCounter([w1 EXCEPT !.sub.publishIntervalCount = @ + 1])
    IN  IF lifeTimeHasExpired(w2)
        THEN terminate(
                 _addNotificationMessage(emit(w2, "expired", 0),
                                         <<StatusChangeNotification("BadTimeout")>>))
        ELSE
        LET noRequest == w2.pe.pendingPublishRequestCount = 0
            \* hasPendingNotifications || hasMonitoredItemNotifications: the
            \* second getter runs only when the first is false
            w3 == IF hasPendingNotifications(w2) THEN w2
                  ELSE get_hasMonitoredItemNotifications(w2)
        IN  IF noRequest
            THEN IF hasPendingNotifications(w2) \/ hasMonitoredItemNotifications(w2)
                 THEN [w3 EXCEPT !.sub.state = "LATE"]
                 ELSE _process_keepAlive(w3)
            ELSE IF hasPendingNotifications(w2)
                 THEN process_subscription(w2)
                 ELSE IF hasMonitoredItemNotifications(w2)
                      THEN process_subscription(w3)
                      ELSE _process_keepAlive(w3)

---------------------------------------------------------------------------
(* Services *)

modify(w, param) ==
    LET requestedPublishingInterval == OrElse(param.requestedPublishingInterval, 0)
        requestedMaxKeepAliveCount ==
            OrElse(param.requestedMaxKeepAliveCount, w.sub.maxKeepAliveCount)
        requestedLifetimeCount ==
            OrElse(param.requestedLifetimeCount, w.sub.lifeTimeCount)
        publishingInterval == _adjust_publishing_interval(requestedPublishingInterval)
        maxKeepAliveCount  == _adjust_maxKeepAliveCount(requestedMaxKeepAliveCount)
        lifeTimeCount      == _adjust_lifeTimeCount(requestedLifetimeCount,
                                                    maxKeepAliveCount, publishingInterval)
        w1 == [w EXCEPT !.sub.modifyCount = @ + 1,
                        !.sub.publishingInterval = publishingInterval,
                        !.sub.maxKeepAliveCount = maxKeepAliveCount,
                        !.sub.lifeTimeCount = lifeTimeCount,
                        !.sub.maxNotificationsPerPublish =
                            param.maxNotificationsPerPublish]
    IN  _start_timer(_stop_timer(resetLifeTimeAndKeepAliveCounters(w1)))

setPublishingMode(w, publishingEnabled) ==
    LET w1 == resetLifeTimeCounter(
                  [w EXCEPT !.sub.publishingEnabled = publishingEnabled])
        w2 == IF ~publishingEnabled /\ w.sub.state # "CLOSED"
              THEN [w1 EXCEPT !.sub.state = "NORMAL"]
              ELSE w1
    IN  return(w2, "setPublishingMode", "Good")

\* a create request, reduced to what the checks of createMonitoredItem read
ValidRequest ==
    [nodeExists |-> TRUE, nodeIsVariable |-> TRUE, attributeId |-> "Value",
     indexRangeValid |-> TRUE, dataEncodingName |-> "", dataEncodingValid |-> TRUE,
     filterStatus |-> "Good"]

ValidEventRequest ==
    [ValidRequest EXCEPT !.nodeIsVariable = FALSE, !.attributeId = "EventNotifier"]

_createMonitoredItemStep2(w, monitoredItemCreateRequest) ==
    LET monitoredItemId == w.g
    IN  [w EXCEPT !.sub.monitoredItemIdCounter = @ + 1,
                  !.g = @ + 1,
                  !.sub.monitoredItems =
                      [id \in DOMAIN @ \cup {monitoredItemId} |->
                          IF id = monitoredItemId
                          THEN MonitoredItem(monitoredItemCreateRequest.attributeId)
                          ELSE @[id]]]

\* variant: the item is created before the request is validated
createMonitoredItem_createfirst(w, monitoredItemCreateRequest) ==
    LET itemToMonitor == monitoredItemCreateRequest
        w1 == _createMonitoredItemStep2(w, monitoredItemCreateRequest)
        handle_error(statusCode) == return(w1, "createMonitoredItem", statusCode)
    IN  IF ~itemToMonitor.nodeExists
        THEN handle_error("BadNodeIdUnknown")
        ELSE IF itemToMonitor.attributeId = "Value" /\ ~itemToMonitor.nodeIsVariable
        THEN handle_error("BadAttributeIdInvalid")
        ELSE IF itemToMonitor.attributeId = "INVALID"
        THEN handle_error("BadAttributeIdInvalid")
        ELSE IF ~itemToMonitor.indexRangeValid
        THEN handle_error("BadIndexRangeInvalid")
        ELSE IF itemToMonitor.dataEncodingName # "" /\ itemToMonitor.attributeId # "Value"
        THEN handle_error("BadDataEncodingInvalid")
        ELSE IF ~itemToMonitor.dataEncodingValid
        THEN handle_error("BadDataEncodingUnsupported")
        ELSE IF itemToMonitor.filterStatus # "Good"
        THEN handle_error(itemToMonitor.filterStatus)
        ELSE return(emit(w1, "monitoredItem", w.g), "createMonitoredItem", "Good")

createMonitoredItem(w, monitoredItemCreateRequest) ==
    LET itemToMonitor == monitoredItemCreateRequest
        handle_error(statusCode) == return(w, "createMonitoredItem", statusCode)
    IN  IF ~itemToMonitor.nodeExists
        THEN handle_error("BadNodeIdUnknown")
        ELSE IF itemToMonitor.attributeId = "Value" /\ ~itemToMonitor.nodeIsVariable
        THEN handle_error("BadAttributeIdInvalid")
        ELSE IF itemToMonitor.attributeId = "INVALID"
        THEN handle_error("BadAttributeIdInvalid")
        ELSE IF ~itemToMonitor.indexRangeValid
        THEN handle_error("BadIndexRangeInvalid")
        ELSE IF itemToMonitor.dataEncodingName # "" /\ itemToMonitor.attributeId # "Value"
        THEN handle_error("BadDataEncodingInvalid")
        ELSE IF ~itemToMonitor.dataEncodingValid
        THEN handle_error("BadDataEncodingUnsupported")
        ELSE IF itemToMonitor.filterStatus # "Good"
        THEN handle_error(itemToMonitor.filterStatus)
        ELSE return(emit(_createMonitoredItemStep2(w, monitoredItemCreateRequest),
                         "monitoredItem", w.g),
                    "createMonitoredItem", "Good")

---------------------------------------------------------------------------
(* notifyTransfer: the status change goes straight to the publish engine   *)
(* with a number of its own; it enters neither queue.                      *)

\* as notifyTransfer, but the number is only peeked at, as a keep-alive does
notifyTransfer_nonumber(w) ==
    LET notificationData ==
            <<StatusChangeNotification("GoodSubscriptionTransferred")>>
        sequenceNumber == _get_future_sequence_number(w)
    IN  [send_notification_message(w,
             [sequenceNumber    |-> sequenceNumber,
              notificationData  |-> notificationData,
              moreNotifications |-> FALSE], TRUE)
           EXCEPT !.hist.transferred = @ \cup {sequenceNumber}]

notifyTransfer(w) ==
    LET notificationData ==
            <<StatusChangeNotification("GoodSubscriptionTransferred")>>
        sequenceNumber == _get_future_sequence_number(w)
    IN  [send_notification_message(_get_next_sequence_number(w),
             [sequenceNumber    |-> sequenceNumber,
              notificationData  |-> notificationData,
              moreNotifications |-> FALSE], TRUE)
           EXCEPT !.hist.transferred = @ \cup {sequenceNumber}]

---------------------------------------------------------------------------
(* The acknowledgeable condition.  w.cond holds                            *)
(*   confirmedState  whether the node has the optional ConfirmedState,     *)
(*   node            the values of the live two-state variables,           *)
(*   branches        the snapshots: branch 0 is the current branch         *)
(*                   (branchId null), branch 1 a historical one.           *)
(* A snapshot holds _map (the stored variants, by normalized name),        *)
(* branchId, eventId, comment and retain.  condition.js supplies           *)
(* normalizeName, setRetain, setComment, getComment, getEventId,           *)
(* raiseNewBranchState, raiseEvent and with_condition_method; they are     *)
(* taken by their contract.                                                *)

NullNodeId == 0

Variant(dataType, value) == [dataType |-> dataType, value |-> value]

coerceLocalizedText(txt) == [text |-> txt]

\* the labels _install_TwoStateVariable_machinery is given
_trueState(varName) ==
    IF varName = "ackedState" THEN "Acknowledged" ELSE "Confirmed"

_falseState(varName) ==
    IF varName = "ackedState" THEN "Unacknowledged" ELSE "Unconfirmed"

\* the key of the .id entry of a variable
idKeyOf(varName) == IF varName = "ackedState" THEN "ackedState.id"
                    ELSE "confirmedState.id"

isCurrentBranch(w, b) == w.cond.branches[b].branchId = NullNodeId

\* _set_twoStateVariable that leaves the human readable text alone
_set_twoStateVariable_notext(w, b, varName, value) ==
    LET idKey == idKeyOf(varName)
        variant == Variant("Boolean", value)
        w1 == [w EXCEPT !.cond.branches[b]._map[idKey] = variant]
        w2 == IF isCurrentBranch(w1, b)
              THEN [w1 EXCEPT !.cond.node[varName] = value]
              ELSE w1
    IN  emit(w2, "value_changed", [branch |-> b, key |-> idKey, variant |-> variant])

_set_twoStateVariable(w, b, varName, value) ==
    LET hrKey == varName
        idKey == idKeyOf(varName)
        variant == Variant("Boolean", value)
        txt == IF value THEN _trueState(varName) ELSE _falseState(varName)
        hrValue == Variant("LocalizedText", coerceLocalizedText(txt))
        w1 == [w EXCEPT !.cond.branches[b]._map[idKey] = variant,
                        !.cond.branches[b]._map[hrKey] = hrValue]
        w2 == IF isCurrentBranch(w1, b)
              THEN [w1 EXCEPT !.cond.node[varName] = value]
              ELSE w1
    IN  emit(w2, "value_changed", [branch |-> b, key |-> idKey, variant |-> variant])

_get_twoStateVariable(w, b, varName) ==
    w.cond.branches[b]._map[idKeyOf(varName)].value

getAckedState(w, b) == _get_twoStateVariable(w, b, "ackedState")

\* _setAckedState that never rejects
_setAckedState_result_good(w, b, requestedAckedState) == "Good"

\* the status _setAckedState returns
_setAckedState_result(w, b, requestedAckedState) ==
    IF getAckedState(w, b) /\ requestedAckedState
    THEN "BadConditionBranchAlreadyAcked"
    ELSE "Good"

\* the world after _setAckedState
_setAckedState(w, b, requestedAckedState) ==
    IF getAckedState(w, b) /\ requestedAckedState
    THEN w
    ELSE _set_twoStateVariable(w, b, "ackedState", requestedAckedState)

setAckedState(w, b, ackedState) == _setAckedState(w, b, ackedState)

getConfirmedState(w, b) == _get_twoStateVariable(w, b, "confirmedState")

setConfirmedState(w, b, confirmedState) ==
    _set_twoStateVariable(w, b, "confirmedState", confirmedState)

setRetain(w, b, retain) == [w EXCEPT !.cond.branches[b].retain = retain]

setComment(w, b, comment) == [w EXCEPT !.cond.branches[b].comment = comment]

getComment(w, b) == w.cond.branches[b].comment

getEventId(w, b) == w.cond.branches[b].eventId

raiseNewBranchState(w, b) ==
    [w EXCEPT !.out = Append(@, [call |-> "condition", name |-> "raiseNewBranchState",
                                 arg |-> w.cond.branches[b]])]

raiseEvent(w, eventType, eventData) ==
    [w EXCEPT !.out = Append(@, [call |-> "raiseEvent", name |-> eventType,
                                 arg |-> eventData])]

_raiseAuditConditionAcknowledgeEvent(w, b) ==
    raiseEvent(w, "AuditConditionAcknowledgeEventType",
               [eventId |-> getEventId(w, b), status |-> "Good",
                comment |-> getComment(w, b)])

_raiseAuditConditionConfirmEvent(w, b) ==
    raiseEvent(w, "AuditConditionConfirmEventType",
               [eventId |-> getEventId(w, b), status |-> "Good",
                comment |-> getComment(w, b)])

_raiseAuditConditionCommentEvent(w, message, eventId, comment) ==
    raiseEvent(w, "AuditConditionCommentEventType",
               [message |-> message, eventId |-> eventId, comment |-> comment])

\* the status _acknowledge_branch returns ("undefined" at its end)
_acknowledge_branch_result(w, b) ==
    IF _setAckedState_result(w, b, TRUE) # "Good"
    THEN _setAckedState_result(w, b, TRUE)
    ELSE "undefined"

\* _acknowledge_branch that publishes the branch before it writes the comment
_acknowledge_branch_publishfirst(w, eventId, comment, b, message) ==
    LET w1 == IF w.cond.confirmedState
              THEN setRetain(setConfirmedState(w, b, FALSE), b, TRUE)
              ELSE setRetain(w, b, FALSE)
        statusCode == _setAckedState_result(w1, b, TRUE)
        w2 == _setAckedState(w1, b, TRUE)
    IN  IF statusCode # "Good"
        THEN w2
        ELSE LET w3 == raiseNewBranchState(w2, b)
                 w4 == setComment(w3, b, comment)
                 w5 == _raiseAuditConditionAcknowledgeEvent(w4, b)
             IN  emit(w5, "acknowledged",
                      [eventId |-> eventId, comment |-> comment, branch |-> b])

_acknowledge_branch(w, eventId, comment, b, message) ==
    LET w1 == IF w.cond.confirmedState
              THEN setRetain(setConfirmedState(w, b, FALSE), b, TRUE)
              ELSE setRetain(w, b, FALSE)
        statusCode == _setAckedState_result(w1, b, TRUE)
        w2 == _setAckedState(w1, b, TRUE)
    IN  IF statusCode # "Good"
        THEN w2
        ELSE LET w3 == setComment(w2, b, comment)
                 w4 == raiseNewBranchState(w3, b)
                 w5 == _raiseAuditConditionAcknowledgeEvent(w4, b)
             IN  emit(w5, "acknowledged",
                      [eventId |-> eventId, comment |-> comment, branch |-> b])

\* with_condition_method finds the branch of the eventId, runs the inner
\* function and answers with the status it returns
branchOf(w, eventId) ==
    CHOOSE b \in DOMAIN w.cond.branches : w.cond.branches[b].eventId = eventId

_acknowledge_method(w, eventId, comment) ==
    return(_acknowledge_branch(w, eventId, comment, branchOf(w, eventId),
                               "Method/Acknowledged"),
           "Acknowledge", "Good")

\* _confirm_branch that publishes the branch before it raises the audit events
_confirm_branch_publishfirst(w, eventId_, comment, b, message) ==
    LET eventId == getEventId(w, b)
        w1 == setComment(setRetain(setConfirmedState(w, b, TRUE), b, FALSE), b, comment)
        w2 == raiseNewBranchState(w1, b)
        w3 == _raiseAuditConditionCommentEvent(w2, message, eventId, comment)
        w4 == _raiseAuditConditionConfirmEvent(w3, b)
    IN  emit(w4, "confirmed", [eventId |-> eventId, comment |-> comment, branch |-> b])

_confirm_branch(w, eventId_, comment, b, message) ==
    LET eventId == getEventId(w, b)
        w1 == setComment(setRetain(setConfirmedState(w, b, TRUE), b, FALSE), b, comment)
        w2 == _raiseAuditConditionCommentEvent(w1, message, eventId, comment)
        w3 == _raiseAuditConditionConfirmEvent(w2, b)
        w4 == raiseNewBranchState(w3, b)
    IN  emit(w4, "confirmed", [eventId |-> eventId, comment |-> comment, branch |-> b])

\* _confirm_method that confirms whatever the branch holds
_confirm_method_nocheck(w, eventId, comment) ==
    return(_confirm_branch(w, eventId, comment, branchOf(w, eventId), "Method/Confirm"),
           "Confirm", "Good")

_confirm_method(w, eventId, comment) ==
    LET b == branchOf(w, eventId)
    IN  IF getConfirmedState(w, b)
        THEN return(w, "Confirm", "BadConditionBranchAlreadyConfirmed")
        ELSE return(_confirm_branch(w, eventId, comment, b, "Method/Confirm"),
                    "Confirm", "Good")

autoConfirmBranch(w, b, comment) ==
    _confirm_branch(w, getEventId(w, b), comment, b, "Server/Confirm")

\* acknowledgeAndAutoConfirmBranch that confirms before it acknowledges
acknowledgeAndAutoConfirmBranch_confirmfirst(w, b, comment) ==
    LET eventId == getEventId(w, b)
        w1 == setRetain(w, b, FALSE)
        w2 == autoConfirmBranch(w1, b, comment)
    IN  _acknowledge_branch(w2, eventId, comment, b, "Server/Acknowledge")

acknowledgeAndAutoConfirmBranch(w, b, comment) ==
    LET eventId == getEventId(w, b)
        w1 == setRetain(w, b, FALSE)
        w2 == _acknowledge_branch(w1, eventId, comment, b, "Server/Acknowledge")
    IN  autoConfirmBranch(w2, b, comment)

\* a snapshot whose two-state variables hold the given values
ConditionSnapshot(branchId, withConfirmedState, acked, confirmed) ==
    [branchId |-> branchId,
     eventId  |-> branchId + 10,
     comment  |-> "",
     retain   |-> FALSE,
     _map     |->
        IF withConfirmedState
        THEN [k \in {"ackedState", "ackedState.id", "confirmedState", "confirmedState.id"} |->
                 CASE k = "ackedState.id" -> Variant("Boolean", acked)
                   [] k = "ackedState" ->
                        Variant("LocalizedText",
                                coerceLocalizedText(IF acked THEN _trueState("ackedState")
                                                    ELSE _falseState("ackedState")))
                   [] k = "confirmedState.id" -> Variant("Boolean", confirmed)
                   [] OTHER ->
                        Variant("LocalizedText",
                                coerceLocalizedText(IF confirmed
                                                    THEN _trueState("confirmedState")
                                                    ELSE _falseState("confirmedState")))]
        ELSE [k \in {"ackedState", "ackedState.id"} |->
                 CASE k = "ackedState.id" -> Variant("Boolean", acked)
                   [] OTHER ->
                        Variant("LocalizedText",
                                coerceLocalizedText(IF acked THEN _trueState("ackedState")
                                                    ELSE _falseState("ackedState")))]]

\* the condition node after instantiate, with its current branch and one
\* historical branch taken from it
UAAcknowledgeableConditionBase_instantiate(withConfirmedState, acked, confirmed) ==
    [confirmedState |-> withConfirmedState,
     node     |-> IF withConfirmedState
                  THEN [k \in {"ackedState", "confirmedState"} |->
                           IF k = "ackedState" THEN acked ELSE confirmed]
                  ELSE [k \in {"ackedState"} |-> acked],
     branches |-> [b \in {0, 1} |->
                      ConditionSnapshot(b, withConfirmedState, acked, confirmed)]]

---------------------------------------------------------------------------
(* The state machine *)

World ==
    [sub |-> subscription, pe |-> publishEngine, g |-> g_monitoredItemId,
     imm |-> immediate, out |-> <<>>, hist |-> hist, cond |-> condition]

Apply(w) ==
    /\ subscription' = w.sub
    /\ publishEngine' = w.pe
    /\ g_monitoredItemId' = w.g
    /\ immediate' = w.imm
    /\ out' = w.out
    /\ hist' = w.hist
    /\ condition' = w.cond

\* what the constructor is called with
Options ==
    [publishingInterval : {0}, maxKeepAliveCount : {0}, lifeTimeCount : {0},
     maxNotificationsPerPublish : {0, 1}, publishingEnabled : {TRUE}]

\* what modify is called with
ModifyParams ==
    {[requestedPublishingInterval |-> 0, requestedMaxKeepAliveCount |-> 0,
      requestedLifetimeCount |-> 0, maxNotificationsPerPublish |-> 1],
     [requestedPublishingInterval |-> 2000, requestedMaxKeepAliveCount |-> 3,
      requestedLifetimeCount |-> 0, maxNotificationsPerPublish |-> 0]}

CreateRequests ==
    {ValidRequest, ValidEventRequest,
     [ValidRequest EXCEPT !.nodeExists = FALSE],
     [ValidRequest EXCEPT !.nodeIsVariable = FALSE],
     [ValidRequest EXCEPT !.attributeId = "INVALID"],
     [ValidRequest EXCEPT !.indexRangeValid = FALSE],
     [ValidEventRequest EXCEPT !.dataEncodingName = "DefaultXml"],
     [ValidRequest EXCEPT !.dataEncodingValid = FALSE],
     [ValidRequest EXCEPT !.filterStatus = "BadFilterNotAllowed"]}

InitWith(options) ==
    /\ subscription = Subscription(options)
    /\ publishEngine = [pendingPublishRequestCount |-> 0]
    /\ g_monitoredItemId = 1
    /\ immediate = 0
    /\ out = <<>>
    /\ hist = [options |-> options, lastSent |-> 0, acked |-> {}, discarded |-> {},
               transferred |-> {}, terminated |-> 0, closed |-> 0,
               audits |-> [b \in {0, 1} |-> 0], resets |-> {},
               keepAlive |-> [numbers |-> {}, count |-> 0, next |-> {}]]
    /\ condition = UAAcknowledgeableConditionBase_instantiate(FALSE, FALSE, FALSE)

\* what a constructor call without options gets
DefaultOptions ==
    [publishingInterval |-> 0, maxKeepAliveCount |-> 0, lifeTimeCount |-> 0,
     maxNotificationsPerPublish |-> 0, publishingEnabled |-> TRUE]

Init == InitWith(DefaultOptions)

InitPublish == \E options \in Options : InitWith(options)

\* numbers allocated so far plus notifications waiting in the items' buffers
Load ==
    (subscription._sequence_number_generator - 1)
      + Len(ExtractAll(subscription.monitoredItems,
                       KeysOf(DOMAIN subscription.monitoredItems)))

\* the publishing timer fires
Tick ==
    /\ subscription.timerId # "null"
    /\ subscription.publishIntervalCount < MaxTicks
    /\ Apply(_tick(World))

\* a _tick queued with setImmediate runs
ImmediateTick ==
    /\ immediate > 0
    /\ Apply(_tick([World EXCEPT !.imm = @ - 1]))

\* the client queues a publish request
PublishRequest ==
    /\ publishEngine.pendingPublishRequestCount < MaxRequests
    /\ Apply([World EXCEPT !.pe.pendingPublishRequestCount = @ + 1])

\* the publish engine lets the subscription use a queued request
ProcessSubscription ==
    /\ publishEngine.pendingPublishRequestCount > 0
    /\ Apply(process_subscription(World))

AcknowledgeNotification ==
    \E sequenceNumber \in 1..(MaxSeq + 2) :
        Apply(acknowledgeNotification(World, sequenceNumber))

Modify ==
    /\ subscription.modifyCount < MaxModify
    /\ \E param \in ModifyParams : Apply(modify(World, param))

SetPublishingMode ==
    \E publishingEnabled \in BOOLEAN :
        Apply(setPublishingMode(World, publishingEnabled))

CreateMonitoredItem ==
    /\ g_monitoredItemId <= MaxItems
    /\ \E request \in CreateRequests : Apply(createMonitoredItem(World, request))

RemoveMonitoredItem ==
    \E monitoredItemId \in 1..(MaxItems + 1) :
        Apply(removeMonitoredItem(World, monitoredItemId))

Terminate == Apply(terminate(World))

\* a monitored item samples a change or receives an event
NotificationArrives ==
    /\ Load < MaxSeq
    /\ \E id \in DOMAIN subscription.monitoredItems :
           Apply([World EXCEPT !.sub.monitoredItems[id].queue =
                      Append(@, NotificationOf(id, subscription.monitoredItems[id]))])

Next ==
    \/ Tick
    \/ ImmediateTick
    \/ PublishRequest
    \/ ProcessSubscription
    \/ AcknowledgeNotification
    \/ Modify
    \/ SetPublishingMode
    \/ CreateMonitoredItem
    \/ RemoveMonitoredItem
    \/ Terminate
    \/ NotificationArrives

Spec == Init /\ [][Next]_vars

\* the publishing path alone: items, notifications, ticks, publish requests,
\* process_subscription and acknowledgements
\* the client creates a monitored item on the Value attribute of a variable
CreateValidMonitoredItem ==
    /\ g_monitoredItemId <= MaxItems
    /\ Apply(createMonitoredItem(World, ValidRequest))

NextPublish ==
    \/ Tick
    \/ ImmediateTick
    \/ PublishRequest
    \/ ProcessSubscription
    \/ AcknowledgeNotification
    \/ CreateValidMonitoredItem
    \/ NotificationArrives

SpecPublish == InitPublish /\ [][NextPublish]_vars


---------------------------------------------------------------------------
(* A silent subscription: no monitored item, no publish request, only the  *)
(* publishing timer.                                                       *)

OptionsSilent ==
    [publishingInterval : {100, 1000}, maxKeepAliveCount : {3},
     lifeTimeCount : {9, 60}, maxNotificationsPerPublish : {0},
     publishingEnabled : {TRUE}]

InitSilent == \E options \in OptionsSilent : InitWith(options)

TickSilent ==
    /\ subscription.timerId # "null"
    /\ Apply(_tick(World))

SpecSilent == InitSilent /\ [][TickSilent]_vars

---------------------------------------------------------------------------
(* A busy subscription: one monitored item that has a new value for every  *)
(* publishing cycle, and a client that has a publish request queued at     *)
(* every tick but acknowledges only the first MaxAckR messages.            *)

InitRetransmit == InitWith(DefaultOptions)

SomethingToSend ==
    \/ subscription._pending_notifications # <<>>
    \/ \E id \in DOMAIN subscription.monitoredItems :
           subscription.monitoredItems[id].queue # <<>>

CreateMonitoredItemR ==
    /\ g_monitoredItemId = 1
    /\ Apply(createMonitoredItem(World, ValidRequest))

NotificationArrivesR ==
    /\ ~SomethingToSend
    /\ subscription._sequence_number_generator <= MaxSeqR
    /\ \E id \in DOMAIN subscription.monitoredItems :
           Apply([World EXCEPT !.sub.monitoredItems[id].queue =
                      Append(@, NotificationOf(id, subscription.monitoredItems[id]))])

PublishRequestR ==
    /\ SomethingToSend
    /\ publishEngine.pendingPublishRequestCount = 0
    /\ Apply([World EXCEPT !.pe.pendingPublishRequestCount = @ + 1])

TickR ==
    /\ subscription.timerId # "null"
    /\ SomethingToSend
    /\ publishEngine.pendingPublishRequestCount > 0
    /\ Apply(_tick(World))

AcknowledgeNotificationR ==
    \E sequenceNumber \in 1..MaxAckR :
        /\ sequenceNumber \notin hist.acked
        /\ Apply(acknowledgeNotification(World, sequenceNumber))

NextRetransmit ==
    \/ CreateMonitoredItemR
    \/ NotificationArrivesR
    \/ PublishRequestR
    \/ TickR
    \/ AcknowledgeNotificationR

SpecRetransmit == InitRetransmit /\ [][NextRetransmit]_vars

---------------------------------------------------------------------------
(* Vocabulary of the properties *)

\* the sequence numbers held by a queue
SeqNums(queue) == {queue[i].sequenceNumber : i \in 1..Len(queue)}

\* TRUE iff the queue is in strictly increasing sequence-number order
Increasing(queue) ==
    \A i, j \in 1..Len(queue) :
        i < j => queue[i].sequenceNumber < queue[j].sequenceNumber

\* the entries of a trace with the given kind and name
Calls(trace, call, name) ==
    SelectSeq(trace, LAMBDA e : e.call = call /\ e.name = name)

\* the sequence numbers handed to send_notification_message(.., false), in
\* call order
Dispatched(trace) ==
    LET sends == SelectSeq(Calls(trace, "publishEngine", "send_notification_message"),
                           LAMBDA e : ~e.arg.initial)
    IN  [i \in 1..Len(sends) |-> sends[i].arg.sequenceNumber]

\* every sequence number the subscription has allocated is below the generator
AllocatedBelowGenerator ==
    \A n \in SeqNums(subscription._pending_notifications)
               \cup SeqNums(subscription._sent_notifications)
               \cup {hist.lastSent} :
        n < subscription._sequence_number_generator

---------------------------------------------------------------------------
(* Sequence numbers and the two queues *)

\* C1: the sequence numbers handed to send_notification_message(.., false)
\* are strictly increasing in call order, the pending queue is drained first
\* in first out (what is dispatched is below everything still pending), and a
\* message enqueued by _addNotificationMessage gets a number greater than
\* every number allocated before it.
C1_DispatchInIncreasingOrder ==
    /\ []AllocatedBelowGenerator
    /\ [][ /\ \A i \in 1..Len(Dispatched(out')) :
                 /\ Dispatched(out')[i] > hist.lastSent
                 /\ \A j \in 1..(i - 1) : Dispatched(out')[j] < Dispatched(out')[i]
                 /\ \A n \in SeqNums(subscription'._pending_notifications) :
                        Dispatched(out')[i] < n
           /\ Increasing(subscription'._pending_notifications)
           /\ \A n \in (SeqNums(subscription'._pending_notifications)
                          \cup SeqNums(subscription'._sent_notifications))
                       \ (SeqNums(subscription._pending_notifications)
                            \cup SeqNums(subscription._sent_notifications)) :
                  n >= subscription._sequence_number_generator
         ]_vars

\* two messages were pending together and the second one has now been sent
C1_Witness ==
    /\ Dispatched(out) = <<2>>
    /\ hist.lastSent = 2
    /\ SeqNums(subscription._sent_notifications) = {1, 2}

\* no sequence number is in both queues
C2_PendingAndSentDisjoint ==
    SeqNums(subscription._pending_notifications)
        \cap SeqNums(subscription._sent_notifications) = {}

\* a number leaves pending, and enters sent, only by being handed to the engine
C2_MovesWhenSent ==
    [][ LET pending == SeqNums(subscription._pending_notifications)
            sent    == SeqNums(subscription._sent_notifications)
            handed  == {Dispatched(out')[i] : i \in 1..Len(Dispatched(out'))}
        IN  /\ \A n \in handed :
                  /\ n \notin SeqNums(subscription'._pending_notifications)
                  /\ n \in SeqNums(subscription'._sent_notifications)
                  /\ n \notin sent
            /\ \A n \in pending \ SeqNums(subscription'._pending_notifications) :
                  n \in handed
            /\ \A n \in SeqNums(subscription'._sent_notifications) \ sent :
                  n \in handed
      ]_vars

\* C2: no message is in the pending queue and in the sent queue at once, and
\* a message leaves pending for sent in exactly the step that hands it to
\* send_notification_message.
C2_MoveOnDispatch == []C2_PendingAndSentDisjoint /\ C2_MovesWhenSent

\* one message has moved to sent while another one is still pending
C2_Witness ==
    /\ SeqNums(subscription._sent_notifications) = {1}
    /\ SeqNums(subscription._pending_notifications) = {2}
    /\ Dispatched(out) = <<1>>

---------------------------------------------------------------------------
(* The retransmission queue and its counter *)

\* the statuses acknowledgeNotification returned in a trace
AckReturns(trace) ==
    LET returns == Calls(trace, "return", "acknowledgeNotification")
    IN  [i \in 1..Len(returns) |-> returns[i].arg]

\* C3: right after a send-one or an acknowledgeNotification call the counter
\* _unacknowledgedMessageCount equals the length of the sent queue, as long as
\* the discard-old pass has not removed anything yet.
C3_CountMatchesSentBeforeDiscard ==
    (/\ hist.discarded = {}
     /\ Dispatched(out) # <<>> \/ AckReturns(out) # <<>>)
        => subscription._unacknowledgedMessageCount
               = Len(subscription._sent_notifications)

\* three messages were sent and the first was then acknowledged
C3_Witness ==
    /\ hist.discarded = {}
    /\ AckReturns(out) = <<"Good">>
    /\ hist.acked = {1}
    /\ SeqNums(subscription._sent_notifications) = {2, 3}
    /\ subscription._unacknowledgedMessageCount = 2

\* C4: the unacknowledgedMessageCount property equals the length of the sent
\* queue in every reachable state, also after discardOldSentNotifications
\* has removed entries.
C4_CountIsSentLength ==
    unacknowledgedMessageCount(World) = Len(subscription._sent_notifications)

\* a step that runs the body of _tick: only _tick counts publishing intervals
TickStep ==
    subscription'.publishIntervalCount = subscription.publishIntervalCount + 1

\* C5: a discard-old pass that finds at least maxNotificationMessagesInQueue
\* entries in the sent queue removes the oldest ones: the most recent
\* maxNotificationMessagesInQueue entries are still in the sent queue after
\* the tick and getMessageForSequenceNumber finds them.
C5_DiscardKeepsMostRecent ==
    [][ LET sent == subscription._sent_notifications
        IN  (TickStep /\ Len(sent) >= maxNotificationMessagesInQueue)
               => \A i \in (Len(sent) - maxNotificationMessagesInQueue + 1)..Len(sent) :
                      getMessageForSequenceNumber(World', sent[i].sequenceNumber)
                          = sent[i]
      ]_vars

\* C6: acknowledgeNotification on a number of the sent queue removes exactly
\* that entry, decrements _unacknowledgedMessageCount and returns Good; on any
\* other number it returns BadSequenceNumberUnknown and changes nothing of
\* the subscription.
C6_AcknowledgeHitOrMiss ==
    [][ \A sequenceNumber \in 1..(MaxSeq + 2) :
          Apply(acknowledgeNotification(World, sequenceNumber)) =>
            LET sent == subscription._sent_notifications
            IN  IF sequenceNumber \in SeqNums(sent)
                THEN /\ AckReturns(out') = <<"Good">>
                     /\ subscription'._sent_notifications =
                            SelectSeq(sent, LAMBDA e : e.sequenceNumber # sequenceNumber)
                     /\ Len(subscription'._sent_notifications) = Len(sent) - 1
                     /\ subscription'._unacknowledgedMessageCount =
                            subscription._unacknowledgedMessageCount - 1
                     /\ subscription' =
                            [subscription EXCEPT
                                !._sent_notifications = subscription'._sent_notifications,
                                !._unacknowledgedMessageCount = @ - 1]
                ELSE /\ AckReturns(out') = <<"BadSequenceNumberUnknown">>
                     /\ subscription' = subscription
      ]_vars

\* the second of two sent messages has been acknowledged, the first is kept
C6_WitnessHit ==
    /\ AckReturns(out) = <<"Good">>
    /\ hist.acked = {2}
    /\ SeqNums(subscription._sent_notifications) = {1}

---------------------------------------------------------------------------
(* The life cycle *)

\* the positions of a name in a trace
Positions(trace, call, name) ==
    {i \in 1..Len(trace) : trace[i].call = call /\ trace[i].name = name}

\* C7: the state is CLOSED if and only if the publishing timer is inactive
\* and the subscription has no monitored item.
C7_ClosedIffTimerOffAndNoItems ==
    subscription.state = "CLOSED"
        <=> (subscription.timerId = "null" /\ DOMAIN subscription.monitoredItems = {})

\* C8: once the state is CLOSED no operation changes it.
C8_ClosedIsAbsorbing ==
    [][subscription.state = "CLOSED" => subscription'.state = "CLOSED"]_vars

\* a tick that finds the subscription open and brings the life-time counter
\* up to lifeTimeCount
ExpiryTick ==
    /\ subscription.state # "CLOSED"
    /\ TickStep
    /\ subscription._life_time_counter + 1 >= subscription.lifeTimeCount

\* C9: the tick on which the life-time counter reaches lifeTimeCount emits
\* "expired", appends one StatusChangeNotification(BadTimeout) message with a
\* fresh sequence number to the pending queue, stops the timer, closes the
\* subscription, emits "terminated" after "expired" and calls
\* on_close_subscription; it sends no notification message and no keep-alive.
C9_ExpiryTick ==
    [][ ExpiryTick =>
          /\ Positions(out', "emit", "expired") = {1}
          /\ Positions(out', "emit", "terminated") = {Len(out') - 1}
          /\ Positions(out', "publishEngine", "on_close_subscription") = {Len(out')}
          /\ Positions(out', "publishEngine", "send_notification_message") = {}
          /\ Positions(out', "publishEngine", "send_keep_alive_response") = {}
          /\ Positions(out', "emit", "keepalive") = {}
          /\ publishEngine' = publishEngine
          /\ subscription'._pending_notifications =
                 Append(subscription._pending_notifications,
                        [sequenceNumber   |-> subscription._sequence_number_generator,
                         notificationData |-> <<StatusChangeNotification("BadTimeout")>>])
          /\ subscription._sequence_number_generator
                 \notin SeqNums(subscription._pending_notifications)
                          \cup SeqNums(subscription._sent_notifications)
          /\ subscription'._sequence_number_generator =
                 subscription._sequence_number_generator + 1
          /\ subscription'._sent_notifications = subscription._sent_notifications
          /\ subscription'.timerId = "null"
          /\ subscription'.state = "CLOSED"
          /\ DOMAIN subscription'.monitoredItems = {}
      ]_vars

\* a subscription with a monitored item and a publish request waiting has
\* just expired
C9_Witness ==
    /\ subscription.state = "CLOSED"
    /\ Positions(out, "emit", "expired") = {1}
    /\ Positions(out, "emit", "removeMonitoredItem") # {}
    /\ publishEngine.pendingPublishRequestCount > 0
    /\ subscription._pending_notifications # <<>>
    /\ subscription._pending_notifications[Len(subscription._pending_notifications)]
           .notificationData = <<StatusChangeNotification("BadTimeout")>>

\* the options of the silent subscription of the example
SilentExample ==
    [publishingInterval |-> 100, maxKeepAliveCount |-> 3, lifeTimeCount |-> 9,
     maxNotificationsPerPublish |-> 0, publishingEnabled |-> TRUE]

\* the ticks the example lives: ceil(5000 / 100)
SilentExampleTicks == Ceil(5 * 1000, 100)

\* C10 as stated: the silent subscription created with publishingInterval 100,
\* maxKeepAliveCount 3 and lifeTimeCount 9 has fired "expired" and is CLOSED
\* after 9 ticks.
C10_ClosedAfterNineTicks ==
    (hist.options = SilentExample /\ subscription.publishIntervalCount = 9)
        => (subscription.state = "CLOSED" /\ Positions(out, "emit", "expired") # {})

\* C10, amended: the constructor raises lifeTimeCount 9 to ceil(5000/100) = 50,
\* so that subscription is open through its first 49 ticks, and fires
\* "expired" and is CLOSED on its 50th tick, which is its last.
C10_ClosedAfterFiftyTicks ==
    hist.options = SilentExample =>
        /\ subscription.lifeTimeCount = SilentExampleTicks
        /\ subscription.publishIntervalCount <= SilentExampleTicks
        /\ subscription.publishIntervalCount < SilentExampleTicks
               => (subscription.state # "CLOSED" /\ Positions(out, "emit", "expired") = {})
        /\ subscription.publishIntervalCount = SilentExampleTicks
               => (subscription.state = "CLOSED" /\ Positions(out, "emit", "expired") = {1})

\* the example subscription has just expired on its 50th tick
C10_Witness ==
    /\ hist.options = SilentExample
    /\ subscription.publishIntervalCount = 50
    /\ subscription.state = "CLOSED"
    /\ Positions(out, "emit", "expired") = {1}

---------------------------------------------------------------------------
(* The parameters: a subscription built from any options and modified with *)
(* any parameters, its timer running in between. A missing (undefined)     *)
(* number is 0 here: the code reads both through "||".                     *)

OptionsAny ==
    [publishingInterval : {0, 100}, maxKeepAliveCount : {0, 5},
     lifeTimeCount : {0, 100}, maxNotificationsPerPublish : {-1, 2},
     publishingEnabled : {TRUE}]

ModifyParamsAny ==
    [requestedPublishingInterval : {0, 100, 2000},
     requestedMaxKeepAliveCount : {0, 1, 20000},
     requestedLifetimeCount : {0, 40000},
     maxNotificationsPerPublish : {-1, 0, 2}]

InitParams == \E options \in OptionsAny : InitWith(options)

ModifyAny ==
    /\ subscription.modifyCount < MaxModify
    /\ \E param \in ModifyParamsAny : Apply(modify(World, param))

NextParams ==
    \/ Tick
    \/ ModifyAny

SpecParams == InitParams /\ [][NextParams]_vars

\* C11: lifeTimeCount is at least three times maxKeepAliveCount in every
\* reachable state, whatever the constructor and modify were given.
C11_LifeTimeAtLeastThreeKeepAlive ==
    subscription.lifeTimeCount >= 3 * subscription.maxKeepAliveCount

\* a modify that asked for 20000 keep-alive counts and no lifetime got
\* 12000 and 36000
C11_Witness ==
    /\ subscription.modifyCount = 1
    /\ subscription.maxKeepAliveCount = maximumMaxKeepAliveCount
    /\ subscription.lifeTimeCount = 3 * maximumMaxKeepAliveCount

\* a step that is a call of modify: only modify counts modifications
ModifyStep == subscription'.modifyCount = subscription.modifyCount + 1

\* C12: right after modify returns, _life_time_counter and
\* _keep_alive_counter are both 0.
C12_CountersZeroAfterModify ==
    [][ ModifyStep => /\ subscription'._life_time_counter = 0
                      /\ subscription'._keep_alive_counter = 0 ]_vars

\* the adjustment formulas of the parameters, as the claim gives them
ClampedPublishingInterval(input) ==
    Min(Max(OrElse(input, 1000), 50), 1000 * 60 * 60 * 24 * 15)

ClampedMaxKeepAliveCount(input) == Min(Max(OrElse(input, 2), 2), 12000)

FloorOfLifeTimeCount(input, maxKeepAliveCount, publishingInterval) ==
    Max(Max(OrElse(input, 1), 3 * maxKeepAliveCount), Ceil(5000, publishingInterval))

\* C13: after modify(p) the stored parameters are the adjustment formulas
\* applied to the inputs of p, and maxNotificationsPerPublish is never
\* negative.
C13_ModifyStoresAdjustedParameters ==
    /\ [](subscription.maxNotificationsPerPublish >= 0)
    /\ [][ \A p \in ModifyParamsAny :
             Apply(modify(World, p)) =>
               /\ subscription'.publishingInterval =
                      ClampedPublishingInterval(p.requestedPublishingInterval)
               /\ subscription'.maxKeepAliveCount =
                      ClampedMaxKeepAliveCount(p.requestedMaxKeepAliveCount)
               /\ subscription'.lifeTimeCount =
                      FloorOfLifeTimeCount(p.requestedLifetimeCount,
                                           subscription'.maxKeepAliveCount,
                                           subscription'.publishingInterval)
               /\ subscription'.maxNotificationsPerPublish =
                      Max(p.maxNotificationsPerPublish, 0)
         ]_vars

---------------------------------------------------------------------------
(* The busy subscription with a client that is sometimes late: the first   *)
(* publishing cycle may collect two values, and a publish request may miss *)
(* one tick at a time.                                                     *)

OptionsLate ==
    [publishingInterval : {0}, maxKeepAliveCount : {0}, lifeTimeCount : {0},
     maxNotificationsPerPublish : {0, 1}, publishingEnabled : {TRUE}]

InitLate == \E options \in OptionsLate : InitWith(options)

\* a second value arrives before the first harvest
SecondNotificationArrives ==
    /\ subscription._sequence_number_generator = 1
    /\ \E id \in DOMAIN subscription.monitoredItems :
           /\ Len(subscription.monitoredItems[id].queue) = 1
           /\ Apply([World EXCEPT !.sub.monitoredItems[id].queue =
                         Append(@, NotificationOf(id, subscription.monitoredItems[id]))])

\* the timer fires while no publish request is queued: in the first cycles
\* of the run, or when the retransmission queue is full
TickWithoutRequest ==
    /\ subscription.timerId # "null"
    /\ subscription.state # "LATE"
    /\ \/ subscription.publishIntervalCount < MaxTicks
       \/ Len(subscription._sent_notifications) >= maxNotificationMessagesInQueue
    /\ SomethingToSend
    /\ publishEngine.pendingPublishRequestCount = 0
    /\ Apply(_tick(World))

NextLate ==
    \/ NextRetransmit
    \/ SecondNotificationArrives
    \/ TickWithoutRequest

SpecLate == InitLate /\ [][NextLate]_vars

\* a tick of an open subscription that does not expire, with no publish
\* request queued and something to send
LateTick ==
    /\ TickStep
    /\ subscription.state # "CLOSED"
    /\ subscription._life_time_counter + 1 < subscription.lifeTimeCount
    /\ publishEngine.pendingPublishRequestCount = 0
    /\ SomethingToSend

\* C14 as stated: such a tick sets the state to LATE, sends nothing, leaves
\* pending and sent unchanged, harvests nothing and does not count a
\* keep-alive period.
C14_LateTickLeavesQueues ==
    [][ LateTick =>
          /\ subscription'.state = "LATE"
          /\ out' = <<>>
          /\ publishEngine' = publishEngine
          /\ subscription'._pending_notifications = subscription._pending_notifications
          /\ subscription'._sent_notifications = subscription._sent_notifications
          /\ subscription'.monitoredItems = subscription.monitoredItems
          /\ subscription'._keep_alive_counter = subscription._keep_alive_counter
      ]_vars

\* C14, amended: such a tick sets the state to LATE, sends nothing, leaves
\* pending unchanged, harvests nothing and does not count a keep-alive
\* period; but like every tick it first runs the discard-old pass on sent
\* (which changes sent when it holds maxNotificationMessagesInQueue entries
\* or more) and counts one publishing interval and one life-time period.
C14_LateTickAfterDiscard ==
    [][ LateTick =>
          /\ out' = <<>>
          /\ publishEngine' = publishEngine
          /\ Len(subscription._sent_notifications) < maxNotificationMessagesInQueue
                 => subscription'._sent_notifications = subscription._sent_notifications
          /\ subscription' =
                 [subscription EXCEPT
                     !.state = "LATE",
                     !.publishIntervalCount = @ + 1,
                     !._life_time_counter = @ + 1,
                     !._sent_notifications =
                         discardOldSentNotifications(World).sub._sent_notifications,
                     !._hasMonitoredItemNotifications =
                         @ \/ (subscription._pending_notifications = <<>>)]
      ]_vars

\* a late tick has left a message pending while another one is in sent
C14_Witness ==
    /\ subscription.state = "LATE"
    /\ out = <<>>
    /\ subscription._pending_notifications # <<>>
    /\ subscription._sent_notifications # <<>>
    /\ publishEngine.pendingPublishRequestCount = 0
    /\ subscription._life_time_counter = 1

---------------------------------------------------------------------------
(* Recovery from LATE *)

\* the notification messages handed to the publish engine in a trace
SentMessages(trace) ==
    LET sends == Calls(trace, "publishEngine", "send_notification_message")
    IN  [i \in 1..Len(sends) |-> sends[i].arg]

\* a tick of a LATE subscription that publishes, has something to send, and
\* finds a publish request
RecoveryTick ==
    /\ TickStep
    /\ subscription.state = "LATE"
    /\ subscription.publishingEnabled
    /\ SomethingToSend
    /\ publishEngine.pendingPublishRequestCount > 0

\* what a recovery tick does: one message, the head of pending (the first
\* harvested one when pending was empty), moreNotifications telling whether
\* pending is non-empty afterwards, state NORMAL, messageSent, counters 0
RecoverySends ==
    /\ Len(SentMessages(out')) = 1
    /\ ~SentMessages(out')[1].initial
    /\ SentMessages(out')[1].sequenceNumber =
           (IF subscription._pending_notifications # <<>>
            THEN Head(subscription._pending_notifications).sequenceNumber
            ELSE subscription._sequence_number_generator)
    /\ subscription._pending_notifications # <<>> =>
           /\ SentMessages(out')[1].notificationData =
                  Head(subscription._pending_notifications).notificationData
           /\ subscription'._pending_notifications =
                  Tail(subscription._pending_notifications)
    /\ SentMessages(out')[1].moreNotifications =
           (subscription'._pending_notifications # <<>>)
    /\ subscription'.state = "NORMAL"
    /\ subscription'.messageSent
    /\ subscription'._life_time_counter = 0
    /\ subscription'._keep_alive_counter = 0

\* C15 as stated: for a LATE subscription with publishingEnabled and material
\* to send, the first tick at which a publish request is available sends
\* exactly one notification message, the head of pending, and leaves state
\* NORMAL, messageSent true and both counters 0.
C15_LateRecoveryAlwaysSends ==
    [][RecoveryTick => RecoverySends]_vars

\* C15, amended: it does so unless that tick is the one on which
\* _life_time_counter reaches lifeTimeCount; on that tick the subscription
\* expires instead and sends nothing.
C15_LateRecoverySendsUnlessExpired ==
    [][ RecoveryTick =>
          IF subscription._life_time_counter + 1 < subscription.lifeTimeCount
          THEN RecoverySends
          ELSE /\ SentMessages(out') = <<>>
               /\ subscription'.state = "CLOSED"
      ]_vars

\* a LATE subscription with a message pending has got a publish request and
\* its timer is about to fire
C15_Witness ==
    /\ subscription.state = "LATE"
    /\ subscription.publishingEnabled
    /\ Len(subscription._pending_notifications) = 1
    /\ publishEngine.pendingPublishRequestCount > 0
    /\ subscription.timerId # "null"
    /\ subscription.publishIntervalCount < MaxTicks
    /\ subscription._life_time_counter + 1 < subscription.lifeTimeCount

---------------------------------------------------------------------------
(* Keep-alive *)

\* the keep-alive responses asked of the publish engine in a trace
KeepAliveCalls(trace) ==
    LET calls == Calls(trace, "publishEngine", "send_keep_alive_response")
    IN  [i \in 1..Len(calls) |-> calls[i].arg]

\* the sequence numbers of the "keepalive" events of a trace
KeepAliveEvents(trace) ==
    LET events == Calls(trace, "emit", "keepalive")
    IN  [i \in 1..Len(events) |-> events[i].arg]

\* the subscription is as the constructor left it, but for monitored items
\* that have nothing to report
NewlyCreated ==
    /\ [subscription EXCEPT !.monitoredItems = <<>>, !.monitoredItemIdCounter = 0]
           = Subscription(hist.options)
    /\ ~SomethingToSend

\* C16: the first tick of a newly created subscription with no notifications
\* and a publish request available sends a keep-alive carrying sequence
\* number 1, which stays unallocated, and leaves state KEEPALIVE and
\* messageSent true.
C16_FirstTickSendsKeepAlive ==
    [][ (NewlyCreated /\ TickStep /\ publishEngine.pendingPublishRequestCount > 0) =>
          /\ subscription'.publishIntervalCount = 1
          /\ KeepAliveCalls(out') = <<[sequenceNumber |-> 1, result |-> TRUE]>>
          /\ KeepAliveEvents(out') = <<1>>
          /\ SentMessages(out') = <<>>
          /\ subscription'._sequence_number_generator = 1
          /\ subscription'.state = "KEEPALIVE"
          /\ subscription'.messageSent
          /\ publishEngine'.pendingPublishRequestCount =
                 publishEngine.pendingPublishRequestCount - 1
      ]_vars

\* the first tick has sent the keep-alive numbered 1
C16_Witness ==
    /\ subscription.publishIntervalCount = 1
    /\ KeepAliveEvents(out) = <<1>>
    /\ subscription.state = "KEEPALIVE"
    /\ subscription.messageSent
    /\ subscription._sequence_number_generator = 1

---------------------------------------------------------------------------
(* An idle subscription: no monitored item, and a client that has a        *)
(* publish request queued at every tick.                                   *)

OptionsIdle ==
    [publishingInterval : {0, 100}, maxKeepAliveCount : {0, 3, 4, 5},
     lifeTimeCount : {0, 20}, maxNotificationsPerPublish : {0},
     publishingEnabled : {TRUE}]

InitIdle == \E options \in OptionsIdle : InitWith(options)

PublishRequestIdle ==
    /\ publishEngine.pendingPublishRequestCount = 0
    /\ Apply([World EXCEPT !.pe.pendingPublishRequestCount = @ + 1])

TickIdle ==
    /\ subscription.timerId # "null"
    /\ subscription.publishIntervalCount < MaxTicks
    /\ publishEngine.pendingPublishRequestCount > 0
    /\ Apply(_tick(World))

NextIdle ==
    \/ PublishRequestIdle
    \/ TickIdle

SpecIdle == InitIdle /\ [][NextIdle]_vars

\* C17: in an idle subscription that finds a publish request at every tick,
\* the ticks that send a keep-alive are the first one and then every
\* maxKeepAliveCount-th: the maxKeepAliveCount - 1 ticks after a keep-alive
\* send nothing and the next keep-alive comes exactly maxKeepAliveCount ticks
\* after the previous one.
C17_KeepAliveEveryMaxKeepAliveCount ==
    [][ TickStep =>
          /\ SentMessages(out') = <<>>
          /\ IF (subscription'.publishIntervalCount - 1) % subscription.maxKeepAliveCount = 0
             THEN /\ Len(KeepAliveCalls(out')) = 1
                  /\ KeepAliveCalls(out')[1].result
                  /\ Len(KeepAliveEvents(out')) = 1
                  /\ subscription'._keep_alive_counter = 0
             ELSE /\ out' = <<>>
                  /\ subscription'._keep_alive_counter =
                         (subscription'.publishIntervalCount - 1) % subscription.maxKeepAliveCount
      ]_vars

\* the second keep-alive has just been sent, maxKeepAliveCount = 3 ticks
\* after the first
C17_Witness ==
    /\ subscription.maxKeepAliveCount = 3
    /\ subscription.publishIntervalCount = 4
    /\ Len(KeepAliveEvents(out)) = 1
    /\ subscription._keep_alive_counter = 0

\* C18: when the keep-alive procedure runs with the keep-alive counter at
\* maxKeepAliveCount or above, it asks the publish engine for a keep-alive
\* response; if that returns false the state becomes LATE, neither counter
\* is reset, messageSent is unchanged and no "keepalive" event is emitted;
\* if it returns true the state becomes KEEPALIVE, messageSent is true, both
\* counters are 0 and "keepalive" is emitted with the future sequence number.
C18_KeepAliveResponseOutcome ==
    /\ [][ (/\ TickStep
            /\ subscription.state # "CLOSED"
            /\ subscription._life_time_counter + 1 < subscription.lifeTimeCount
            /\ ~SomethingToSend
            /\ ~subscription._hasMonitoredItemNotifications
            /\ subscription._keep_alive_counter + 1 >= subscription.maxKeepAliveCount)
              => Len(KeepAliveCalls(out')) = 1 ]_vars
    /\ [][ KeepAliveCalls(out') # <<>> =>
             /\ Len(KeepAliveCalls(out')) = 1
             /\ subscription._keep_alive_counter + 1 >= subscription.maxKeepAliveCount
             /\ KeepAliveCalls(out')[1].sequenceNumber = subscription._sequence_number_generator
             /\ subscription'._sequence_number_generator = subscription._sequence_number_generator
             /\ IF KeepAliveCalls(out')[1].result
                THEN /\ subscription'.state = "KEEPALIVE"
                     /\ subscription'.messageSent
                     /\ subscription'._keep_alive_counter = 0
                     /\ subscription'._life_time_counter = 0
                     /\ KeepAliveEvents(out') = <<subscription._sequence_number_generator>>
                ELSE /\ subscription'.state = "LATE"
                     /\ subscription'._keep_alive_counter = subscription._keep_alive_counter + 1
                     /\ subscription'._life_time_counter =
                            subscription._life_time_counter + (IF TickStep THEN 1 ELSE 0)
                     /\ subscription'.messageSent = subscription.messageSent
                     /\ KeepAliveEvents(out') = <<>>
                     /\ publishEngine' = publishEngine
         ]_vars

\* a keep-alive could not be sent for lack of a publish request, after an
\* earlier one had been sent
C18_Witness ==
    /\ KeepAliveCalls(out) # <<>>
    /\ ~KeepAliveCalls(out)[1].result
    /\ subscription.state = "LATE"
    /\ subscription.messageSent
    /\ subscription._keep_alive_counter >= subscription.maxKeepAliveCount
    /\ subscription._life_time_counter > 0

---------------------------------------------------------------------------
(* The busy subscription, transferred to another session early in its      *)
(* life, and possibly left without publish requests until it expires.      *)

MaxTransfer == 1

InitTransfer == InitWith(DefaultOptions)

NotifyTransferR ==
    /\ Cardinality(hist.transferred) < MaxTransfer
    /\ subscription._sequence_number_generator <= MaxSeq
    /\ Apply(notifyTransfer(World))

TickStarved ==
    /\ subscription.timerId # "null"
    /\ subscription.publishIntervalCount < MaxTicks
    /\ publishEngine.pendingPublishRequestCount = 0
    /\ Apply(_tick(World))

NextTransfer ==
    \/ NextRetransmit
    \/ NotifyTransferR
    \/ TickStarved

SpecTransfer == InitTransfer /\ [][NextTransfer]_vars

\* the numbers the generator has handed out
Allocated == 1..(subscription._sequence_number_generator - 1)

\* no message twice in a queue
NoDuplicates(queue) ==
    \A i, j \in 1..Len(queue) :
        queue[i].sequenceNumber = queue[j].sequenceNumber => i = j

\* C19 as stated: the numbers in pending, in sent and acknowledged are
\* together exactly the allocated ones, each exactly once
C19_QueuesAndAckedAreAllocated ==
    /\ SeqNums(subscription._pending_notifications)
          \cup SeqNums(subscription._sent_notifications)
          \cup hist.acked = Allocated
    /\ NoDuplicates(subscription._pending_notifications
                      \o subscription._sent_notifications)
    /\ (SeqNums(subscription._pending_notifications)
          \cup SeqNums(subscription._sent_notifications)) \cap hist.acked = {}

\* C19, amended: every allocated number is in exactly one of five places:
\* pending, sent, acknowledged, dropped by the discard-old pass, or used by
\* notifyTransfer; and nothing else is in any of them
C19_AllocatedAccountedOnce ==
    /\ SeqNums(subscription._pending_notifications)
          \cup SeqNums(subscription._sent_notifications)
          \cup hist.acked \cup hist.discarded \cup hist.transferred = Allocated
    /\ NoDuplicates(subscription._pending_notifications
                      \o subscription._sent_notifications)
    /\ (SeqNums(subscription._pending_notifications)
          \cup SeqNums(subscription._sent_notifications))
          \cap (hist.acked \cup hist.discarded \cup hist.transferred) = {}
    /\ hist.acked \cap hist.discarded = {}
    /\ hist.acked \cap hist.transferred = {}
    /\ hist.discarded \cap hist.transferred = {}

\* a transferred subscription that has acknowledged messages, messages dropped
\* by the discard-old pass, and messages still kept for retransmission
C19_Witness ==
    /\ hist.transferred # {}
    /\ hist.acked # {}
    /\ hist.discarded # {}
    /\ subscription._sent_notifications # <<>>

\* an expired subscription that had been transferred: the BadTimeout message
\* waits in pending
C19_WitnessExpired ==
    /\ hist.transferred # {}
    /\ subscription.state = "CLOSED"
    /\ subscription._pending_notifications # <<>>

---------------------------------------------------------------------------
(* One harvest of a subscription with a Value item (id 1) and an event     *)
(* item (id 2): notifications accumulate in the two items until the first  *)
(* publishing cycle collects them; the messages then leave one per cycle.  *)

MaxData == 5
MaxEvents == 3

OptionsChunk ==
    [publishingInterval : {0}, maxKeepAliveCount : {0}, lifeTimeCount : {0},
     maxNotificationsPerPublish : {0, 1, 2, 3}, publishingEnabled : {TRUE}]

InitChunk == \E options \in OptionsChunk : InitWith(options)

CreateMonitoredItemC ==
    /\ g_monitoredItemId <= 2
    /\ Apply(createMonitoredItem(World, IF g_monitoredItemId = 1 THEN ValidRequest
                                         ELSE ValidEventRequest))

DataChangeArrives ==
    /\ 1 \in DOMAIN subscription.monitoredItems
    /\ subscription._sequence_number_generator = SequenceNumberGenerator
    /\ Len(subscription.monitoredItems[1].queue) < MaxData
    /\ Apply([World EXCEPT !.sub.monitoredItems[1].queue =
                  Append(@, NotificationOf(1, subscription.monitoredItems[1]))])

EventArrives ==
    /\ 2 \in DOMAIN subscription.monitoredItems
    /\ subscription._sequence_number_generator = SequenceNumberGenerator
    /\ Len(subscription.monitoredItems[2].queue) < MaxEvents
    /\ Apply([World EXCEPT !.sub.monitoredItems[2].queue =
                  Append(@, NotificationOf(2, subscription.monitoredItems[2]))])

NextChunk ==
    \/ CreateMonitoredItemC
    \/ DataChangeArrives
    \/ EventArrives
    \/ PublishRequestR
    \/ TickR

SpecChunk == InitChunk /\ [][NextChunk]_vars

\* how many entries of one kind a message carries
PayloadOf(message, type) ==
    LET of == SelectSeq(message.notificationData, LAMBDA n : n.type = type)
    IN  IF of = <<>> THEN 0 ELSE Len(of[1].data)

\* (data-change count, event count) of every message, in order
PayloadSizes(messages) ==
    [i \in 1..Len(messages) |->
        <<PayloadOf(messages[i], "DataChangeNotification"),
          PayloadOf(messages[i], "EventNotificationList")>>]

\* within a message the data changes come before the events
DataChangeFirst(messages) ==
    \A i \in 1..Len(messages) :
        Len(messages[i].notificationData) = 2 =>
            /\ messages[i].notificationData[1].type = "DataChangeNotification"
            /\ messages[i].notificationData[2].type = "EventNotificationList"

\* 5 data changes wait in item 1 and 3 events in item 2, at most 2 a message
FiveThenThree ==
    /\ subscription.maxNotificationsPerPublish = 2
    /\ DOMAIN subscription.monitoredItems = {1, 2}
    /\ Len(subscription.monitoredItems[1].queue) = 5
    /\ Len(subscription.monitoredItems[2].queue) = 3
    /\ ExtractAll(subscription.monitoredItems, <<1, 2>>)
         = [i \in 1..8 |-> [class |-> IF i <= 5 THEN "MonitoredItemNotification"
                                                 ELSE "EventFieldList",
                             item  |-> IF i <= 5 THEN 1 ELSE 2]]

\* nothing waits in the items: the harvest has taken everything
Drained ==
    \A id \in DOMAIN subscription.monitoredItems :
        subscription.monitoredItems[id].queue = <<>>

\* C20 as stated: the harvest of 5 data changes followed by 3 events with
\* maxNotificationsPerPublish = 2 makes 4 messages of payload sizes
\* (2,0),(2,0),(1,2),(0,1)
C20_ChunksAsStated ==
    [][ (FiveThenThree /\ Drained') =>
            PayloadSizes(subscription'._sent_notifications
                           \o subscription'._pending_notifications)
              = << <<2, 0>>, <<2, 0>>, <<1, 2>>, <<0, 1>> >> ]_vars

\* C20, amended: the harvest of 5 data changes followed by 3 events with
\* maxNotificationsPerPublish = 2 makes 4 messages, numbered consecutively,
\* of payload sizes (2,0),(2,0),(1,1),(0,2): no message carries more than 2
\* entries, and the data changes come first within a message
C20_ChunksOfTwo ==
    [][ FiveThenThree =>
          /\ (TickStep /\ publishEngine.pendingPublishRequestCount > 0) => Drained'
          /\ Drained' =>
                LET messages == SelectSeq(subscription'._sent_notifications
                                            \o subscription'._pending_notifications,
                                          LAMBDA m : m.sequenceNumber
                                              >= subscription._sequence_number_generator)
                IN  /\ PayloadSizes(messages)
                         = << <<2, 0>>, <<2, 0>>, <<1, 1>>, <<0, 2>> >>
                    /\ DataChangeFirst(messages)
                    /\ SeqNums(messages)
                         = subscription._sequence_number_generator
                             .. (subscription._sequence_number_generator + 3)
                    /\ Increasing(messages)
                    /\ subscription'._sequence_number_generator
                         = subscription._sequence_number_generator + 4 ]_vars

\* the four messages of that harvest: the first sent, three pending
C20_Witness ==
    /\ hist.options.maxNotificationsPerPublish = 2
    /\ Len(subscription._sent_notifications) = 1
    /\ PayloadSizes(subscription._sent_notifications
                       \o subscription._pending_notifications)
         = << <<2, 0>>, <<2, 0>>, <<1, 1>>, <<0, 2>> >>

---------------------------------------------------------------------------
(* One harvest of a subscription with up to two items of either kind,      *)
(* created in either order; every entry an item queues carries a serial    *)
(* number, so that entries can be told apart.                              *)

MaxArrivals == 4

InitHarvest == \E options \in OptionsChunk : InitWith(options)

CreateMonitoredItemH ==
    /\ g_monitoredItemId <= 2
    /\ \E request \in {ValidRequest, ValidEventRequest} :
           Apply(createMonitoredItem(World, request))

\* what the items hold, first item first
Delivered ==
    IF DOMAIN subscription.monitoredItems = {} THEN <<>>
    ELSE IF DOMAIN subscription.monitoredItems = {1}
    THEN subscription.monitoredItems[1].queue
    ELSE subscription.monitoredItems[1].queue \o subscription.monitoredItems[2].queue

EntryArrives ==
    /\ subscription._sequence_number_generator = SequenceNumberGenerator
    /\ Len(Delivered) < MaxArrivals
    /\ \E id \in DOMAIN subscription.monitoredItems :
           Apply([World EXCEPT !.sub.monitoredItems[id].queue =
                     Append(@, [class |-> NotificationOf(id, subscription.monitoredItems[id]).class,
                                item  |-> id,
                                n     |-> Len(Delivered) + 1])])

NextHarvest ==
    \/ CreateMonitoredItemH
    \/ EntryArrives
    \/ PublishRequestR
    \/ TickR

SpecHarvest == InitHarvest /\ [][NextHarvest]_vars

\* the entries of one kind a message carries
EntriesOf(message, type) ==
    LET of == SelectSeq(message.notificationData, LAMBDA n : n.type = type)
    IN  IF of = <<>> THEN <<>> ELSE of[1].data

\* all entries of the messages as a reader of the messages meets them
RECURSIVE Flatten(_)
Flatten(messages) ==
    IF messages = <<>> THEN <<>>
    ELSE EntriesOf(Head(messages), "DataChangeNotification")
           \o EntriesOf(Head(messages), "EventNotificationList")
           \o Flatten(Tail(messages))

\* TRUE iff the messages cut the entries into consecutive pieces, each
\* message holding the data changes of its piece and the events of its
\* piece, both in the order of the piece
RECURSIVE CutsInOrder(_, _)
CutsInOrder(messages, entries) ==
    IF messages = <<>> THEN entries = <<>>
    ELSE LET k == Len(EntriesOf(Head(messages), "DataChangeNotification"))
                    + Len(EntriesOf(Head(messages), "EventNotificationList"))
         IN  /\ k <= Len(entries)
             /\ EntriesOf(Head(messages), "DataChangeNotification")
                  = SelectSeq(SubSeq(entries, 1, k),
                              LAMBDA e : e.class = "MonitoredItemNotification")
             /\ EntriesOf(Head(messages), "EventNotificationList")
                  = SelectSeq(SubSeq(entries, 1, k),
                              LAMBDA e : e.class = "EventFieldList")
             /\ CutsInOrder(Tail(messages), SubSeq(entries, k + 1, Len(entries)))

\* the sizes of the messages are within the limits
SizesWithinLimit(messages, maxNotificationsPerPublish) ==
    /\ \A i \in 1..Len(messages) :
           /\ PayloadSizes(messages)[i][1] + PayloadSizes(messages)[i][2] >= 1
           /\ maxNotificationsPerPublish > 0 =>
                  PayloadSizes(messages)[i][1] + PayloadSizes(messages)[i][2]
                      <= maxNotificationsPerPublish
    /\ maxNotificationsPerPublish = 0 => Len(messages) = 1

\* C21 as stated: every message of a harvest carries between 1 and
\* maxNotificationsPerPublish entries (one message when it is 0), and the
\* entries of the messages, read in message order, are the drained entries
\* in the order the items delivered them
C21_HarvestKeepsDeliveryOrder ==
    [][ (~Drained /\ Drained') =>
          LET messages == SelectSeq(subscription'._sent_notifications
                                      \o subscription'._pending_notifications,
                                    LAMBDA m : m.sequenceNumber
                                        >= subscription._sequence_number_generator)
          IN  /\ SizesWithinLimit(messages, subscription.maxNotificationsPerPublish)
              /\ Flatten(messages) = Delivered ]_vars

\* C21, amended: every message of a harvest carries between 1 and
\* maxNotificationsPerPublish entries (one message when it is 0); the
\* messages cut the delivered entries into consecutive pieces, every entry in
\* exactly one; within a message the data changes of its piece come first,
\* then its events, each kind in the order delivered
C21_HarvestCutsDelivered ==
    [][ (~Drained /\ Drained') =>
          LET messages == SelectSeq(subscription'._sent_notifications
                                      \o subscription'._pending_notifications,
                                    LAMBDA m : m.sequenceNumber
                                        >= subscription._sequence_number_generator)
          IN  /\ SizesWithinLimit(messages, subscription.maxNotificationsPerPublish)
              /\ CutsInOrder(messages, Delivered)
              /\ DataChangeFirst(messages)
              /\ Len(Flatten(messages)) = Len(Delivered)
              /\ \A e \in {Delivered[i] : i \in 1..Len(Delivered)} :
                     Cardinality({i \in 1..Len(Flatten(messages)) :
                                     Flatten(messages)[i] = e}) = 1 ]_vars

\* a harvest of an event item created before a Value item: the first message
\* holds an event delivered before the data change it follows
C21_Witness ==
    /\ Drained
    /\ DOMAIN subscription.monitoredItems = {1, 2}
    /\ subscription.monitoredItems[1].attributeId # "Value"
    /\ subscription.monitoredItems[2].attributeId = "Value"
    /\ Len(subscription._sent_notifications) = 1
    /\ PayloadSizes(subscription._sent_notifications) = << <<1, 1>> >>
    /\ EntriesOf(subscription._sent_notifications[1], "EventNotificationList")[1].n
         < EntriesOf(subscription._sent_notifications[1], "DataChangeNotification")[1].n
    /\ subscription._pending_notifications # <<>>

---------------------------------------------------------------------------
(* A subscription with publishing switched off and on: created enabled or  *)
(* disabled, switched early in its life or when the sent queue is full,    *)
(* possibly terminated or left to expire.                                  *)

OptionsMode ==
    [publishingInterval : {0}, maxKeepAliveCount : {0}, lifeTimeCount : {0},
     maxNotificationsPerPublish : {0}, publishingEnabled : BOOLEAN]

InitMode == \E options \in OptionsMode : InitWith(options)

\* early in the subscription's life, or with a full sent queue
EarlyOrFull ==
    \/ subscription.publishIntervalCount < MaxTicks
    \/ Len(subscription._sent_notifications) >= maxNotificationMessagesInQueue

\* notifications keep coming only to a subscription that has sent one
\* message on every tick so far
NotificationArrivesM ==
    /\ subscription.publishingEnabled
    /\ \/ subscription._sequence_number_generator <= MaxSeq
       \/ subscription.publishIntervalCount
             = subscription._sequence_number_generator - 1
    /\ NotificationArrivesR

SetPublishingModeM ==
    /\ EarlyOrFull
    /\ \E publishingEnabled \in BOOLEAN :
           Apply(setPublishingMode(World, publishingEnabled))

TickM ==
    /\ subscription.timerId # "null"
    /\ subscription.publishingEnabled \/ EarlyOrFull
    /\ subscription.publishingEnabled => SomethingToSend
    /\ publishEngine.pendingPublishRequestCount > 0
    /\ Apply(_tick(World))

ProcessSubscriptionM ==
    /\ subscription.publishIntervalCount < MaxTicks
    /\ subscription.state # "CLOSED"
    /\ publishEngine.pendingPublishRequestCount > 0
    /\ Apply(process_subscription(World))

PublishRequestM ==
    /\ subscription.publishingEnabled => SomethingToSend
    /\ subscription.publishingEnabled \/ EarlyOrFull
    /\ publishEngine.pendingPublishRequestCount = 0
    /\ Apply([World EXCEPT !.pe.pendingPublishRequestCount = @ + 1])

TerminateM ==
    /\ subscription.publishIntervalCount < MaxTicks
    /\ Apply(terminate(World))

NextMode ==
    \/ CreateMonitoredItemR
    \/ NotificationArrivesM
    \/ PublishRequestM
    \/ TickM
    \/ TickStarved
    \/ ProcessSubscriptionM
    \/ SetPublishingModeM
    \/ TerminateM

SpecMode == InitMode /\ [][NextMode]_vars

\* the last call handed no notification message to the publish engine: all
\* it handed over are keep-alives, or the close of the subscription
OnlyKeepAlives(trace) ==
    \A i \in 1..Len(trace) :
        trace[i].call = "publishEngine" =>
            trace[i].name \in {"send_keep_alive_response", "on_close_subscription"}

\* this tick is the one on which the lifetime runs out
Expires ==
    /\ subscription.state # "CLOSED"
    /\ subscription._life_time_counter + 1 >= subscription.lifeTimeCount

\* the buffers of the items are as they were
NotHarvested ==
    /\ DOMAIN subscription'.monitoredItems = DOMAIN subscription.monitoredItems
    /\ \A id \in DOMAIN subscription.monitoredItems :
           subscription'.monitoredItems[id].queue = subscription.monitoredItems[id].queue

\* a publishing cycle of a disabled subscription, as stated
QuietAsStated ==
    /\ OnlyKeepAlives(out')
    /\ subscription'._pending_notifications = subscription._pending_notifications
    /\ subscription'._sent_notifications = subscription._sent_notifications
    /\ NotHarvested

\* a tick of a disabled subscription
QuietTick ==
    /\ OnlyKeepAlives(out')
    /\ subscription'._sent_notifications
         = discardOldSentNotifications(World).sub._sent_notifications
    /\ IF Expires
       THEN /\ subscription'._pending_notifications
                 = Append(subscription._pending_notifications,
                          [sequenceNumber   |-> subscription._sequence_number_generator,
                           notificationData |-> <<StatusChangeNotification("BadTimeout")>>])
            /\ subscription'.monitoredItems = <<>>
            /\ subscription'.state = "CLOSED"
       ELSE /\ subscription'._pending_notifications = subscription._pending_notifications
            /\ subscription'._sequence_number_generator
                 = subscription._sequence_number_generator
            /\ NotHarvested

\* setPublishingMode(false) gives NORMAL, or leaves CLOSED
DisablingGivesNormal ==
    Apply(setPublishingMode(World, FALSE)) =>
        /\ ~subscription'.publishingEnabled
        /\ subscription'.state = IF subscription.state = "CLOSED" THEN "CLOSED"
                                  ELSE "NORMAL"

\* C22 as stated: while publishing is disabled, a tick or a
\* process_subscription call hands over only keep-alives and leaves pending,
\* sent and the items' buffers unchanged; setPublishingMode(false) sets the
\* state to NORMAL unless it is CLOSED
C22_DisabledChangesNoQueue ==
    [][ /\ (~subscription.publishingEnabled
              /\ \/ Apply(_tick(World))
                 \/ immediate > 0 /\ Apply(_tick([World EXCEPT !.imm = @ - 1]))
                 \/ Apply(process_subscription(World)))
            => QuietAsStated
        /\ DisablingGivesNormal ]_vars

\* C22, amended: while publishing is disabled, a tick or a
\* process_subscription call hands over only keep-alives and harvests
\* nothing; process_subscription leaves pending and sent unchanged; a tick
\* changes sent only by its discard-old pass and pending only when it is the
\* expiry tick, which appends the BadTimeout message and closes the
\* subscription; setPublishingMode(false) sets the state to NORMAL unless it
\* is CLOSED
C22_DisabledSendsOnlyKeepAlives ==
    [][ /\ (~subscription.publishingEnabled
              /\ \/ Apply(_tick(World))
                 \/ immediate > 0 /\ Apply(_tick([World EXCEPT !.imm = @ - 1])))
            => QuietTick
        /\ (~subscription.publishingEnabled /\ Apply(process_subscription(World)))
            => QuietAsStated
        /\ DisablingGivesNormal ]_vars

\* a disabled subscription with a notification waiting in its item and a
\* publish request at hand has just sent a keep-alive instead
C22_Witness ==
    /\ ~subscription.publishingEnabled
    /\ SomethingToSend
    /\ subscription.publishIntervalCount > 0
    /\ KeepAliveCalls(out) # <<>>
    /\ KeepAliveCalls(out)[1].result

\* a disabled subscription has expired: the BadTimeout message is pending
C22_WitnessExpired ==
    /\ ~subscription.publishingEnabled
    /\ Calls(out, "emit", "expired") # <<>>
    /\ subscription._pending_notifications # <<>>

\* the tick of a disabled subscription has emptied a full sent queue
C22_WitnessDiscard ==
    /\ ~subscription.publishingEnabled
    /\ subscription.publishIntervalCount > maxNotificationMessagesInQueue
    /\ hist.discarded # {}
    /\ subscription._sent_notifications = <<>>
    /\ out = <<>>

\* setPublishingMode(false) has left a closed subscription closed
C22_WitnessClosed ==
    /\ ~subscription.publishingEnabled
    /\ subscription.state = "CLOSED"
    /\ Calls(out, "return", "setPublishingMode") # <<>>

---------------------------------------------------------------------------
(* The end of a subscription: terminate calls, an expiry, and the calls     *)
(* that may follow them.  Observe counts, up to 2, the "terminated" events *)
(* and the on_close_subscription calls of the behaviour so far.            *)

Observe(w) ==
    [w EXCEPT !.hist.terminated =
                  Min(2, @ + Len(Calls(w.out, "emit", "terminated"))),
              !.hist.closed =
                  Min(2, @ + Len(Calls(w.out, "publishEngine", "on_close_subscription")))]

InitClose == InitWith(DefaultOptions)

CreateMonitoredItemC1 ==
    /\ g_monitoredItemId <= MaxItems
    /\ Apply(Observe(createMonitoredItem(World, ValidRequest)))

TickC ==
    /\ subscription.timerId # "null"
    /\ subscription.publishIntervalCount < MaxTicks
    /\ Apply(Observe(_tick(World)))

ProcessSubscriptionC ==
    /\ publishEngine.pendingPublishRequestCount > 0
    /\ Apply(Observe(process_subscription(World)))

ModifyC ==
    /\ subscription.modifyCount < MaxModify
    /\ Apply(Observe(modify(World, [requestedPublishingInterval |-> 0,
                                     requestedMaxKeepAliveCount |-> 0,
                                     requestedLifetimeCount |-> 0,
                                     maxNotificationsPerPublish |-> 0])))

TerminateC == Apply(Observe(terminate(World)))

NextClose ==
    \/ CreateMonitoredItemC1
    \/ PublishRequest
    \/ TickC
    \/ ProcessSubscriptionC
    \/ ModifyC
    \/ TerminateC

SpecClose == InitClose /\ [][NextClose]_vars

\* C23: terminate() on an open subscription stops the timer, removes every
\* monitored item, sets the state to CLOSED, then emits "terminated" and then
\* calls on_close_subscription, and nothing else; and over a whole behaviour
\* "terminated" is emitted at most once and on_close_subscription is called
\* at most once
C23_TerminatedOnce ==
    [][ /\ (subscription.state # "CLOSED" /\ Apply(Observe(terminate(World)))) =>
              /\ subscription'.timerId = "null"
              /\ subscription'.monitoredItems = <<>>
              /\ subscription'.state = "CLOSED"
              /\ Len(out') = Len(subscription.monitoredItems) + 2
              /\ \A id \in DOMAIN subscription.monitoredItems :
                     out'[id] = [call |-> "emit", name |-> "removeMonitoredItem",
                                 arg |-> id]
              /\ SubSeq(out', Len(out') - 1, Len(out'))
                   = << [call |-> "emit", name |-> "terminated", arg |-> 0],
                        [call |-> "publishEngine", name |-> "on_close_subscription",
                         arg |-> 0] >>
        /\ hist'.terminated <= 1
        /\ hist'.closed <= 1 ]_vars

\* the first half of C23 alone: what one terminate() call does
C23_TerminateEffect ==
    [][ (subscription.state # "CLOSED" /\ Apply(Observe(terminate(World)))) =>
              /\ subscription'.timerId = "null"
              /\ subscription'.monitoredItems = <<>>
              /\ subscription'.state = "CLOSED"
              /\ Len(out') = Len(subscription.monitoredItems) + 2
              /\ \A id \in DOMAIN subscription.monitoredItems :
                     out'[id] = [call |-> "emit", name |-> "removeMonitoredItem",
                                 arg |-> id]
              /\ SubSeq(out', Len(out') - 1, Len(out'))
                   = << [call |-> "emit", name |-> "terminated", arg |-> 0],
                        [call |-> "publishEngine", name |-> "on_close_subscription",
                         arg |-> 0] >> ]_vars

---------------------------------------------------------------------------
(* Create requests of every kind, valid or not, arriving at any moment of  *)
(* a short life of the subscription.                                       *)

InitCreate == \E options \in Options : InitWith(options)

\* the requests that fail one check each
RejectedRequests == CreateRequests \ {ValidRequest, ValidEventRequest}

CreateRejected ==
    \E request \in RejectedRequests : Apply(createMonitoredItem(World, request))

NextCreate ==
    \/ CreateValidMonitoredItem
    \/ CreateRejected
    \/ NotificationArrives
    \/ PublishRequestR
    \/ TickR
    \/ TickStarved

SpecCreate == InitCreate /\ [][NextCreate]_vars

\* the status each kind of failure is answered with
Rejections ==
    { <<[ValidRequest EXCEPT !.nodeExists = FALSE], "BadNodeIdUnknown">>,
      <<[ValidRequest EXCEPT !.nodeIsVariable = FALSE], "BadAttributeIdInvalid">>,
      <<[ValidRequest EXCEPT !.attributeId = "INVALID"], "BadAttributeIdInvalid">>,
      <<[ValidRequest EXCEPT !.indexRangeValid = FALSE], "BadIndexRangeInvalid">>,
      <<[ValidEventRequest EXCEPT !.dataEncodingName = "DefaultXml"],
        "BadDataEncodingInvalid">>,
      <<[ValidRequest EXCEPT !.dataEncodingValid = FALSE], "BadDataEncodingUnsupported">>,
      <<[ValidRequest EXCEPT !.filterStatus = "BadFilterNotAllowed"],
        "BadFilterNotAllowed">> }

\* C24: a createMonitoredItem call that fails validation returns the Bad
\* status of the failed check and nothing else happens: no event, and the
\* subscription (items, id counters, state, queues, counters), the global
\* item id and the publish engine are unchanged
C24_RejectedCreateChangesNothing ==
    [][ \A rejection \in Rejections :
          Apply(createMonitoredItem(World, rejection[1])) =>
              /\ out' = << [call |-> "return", name |-> "createMonitoredItem",
                            arg |-> rejection[2]] >>
              /\ subscription' = subscription
              /\ g_monitoredItemId' = g_monitoredItemId
              /\ publishEngine' = publishEngine
              /\ immediate' = immediate ]_vars

\* a request was rejected by a subscription that has an item, has sent a
\* message and has another one pending
C24_Witness ==
    /\ Calls(out, "return", "createMonitoredItem") # <<>>
    /\ Calls(out, "return", "createMonitoredItem")[1].arg = "BadFilterNotAllowed"
    /\ DOMAIN subscription.monitoredItems # {}
    /\ subscription._sent_notifications # <<>>
    /\ subscription._pending_notifications # <<>>
    /\ subscription.state = "NORMAL"

---------------------------------------------------------------------------
(* The round trip: N messages are put into the pending queue directly, one *)
(* publish request is served per tick until all are sent, and then every   *)
(* message is acknowledged.  The k-th message carries the value k.         *)

MaxInject == 99

InitRoundTrip == InitWith(DefaultOptions)

InjectRT ==
    /\ subscription.publishIntervalCount = 0
    /\ subscription._sequence_number_generator <= MaxInject
    /\ Apply(_addNotificationMessage(World,
                 <<DataChangeNotification(<<subscription._sequence_number_generator>>)>>))

\* the oldest message is acknowledged; after a short run the newest may be
\* acknowledged first
AcknowledgeRT ==
    /\ subscription._pending_notifications = <<>>
    /\ subscription._sent_notifications # <<>>
    /\ \E i \in {1, Len(subscription._sent_notifications)} :
           /\ i = 1 \/ subscription._sequence_number_generator <= MaxSeq + 2
           /\ Apply(acknowledgeNotification(World,
                        subscription._sent_notifications[i].sequenceNumber))

NextRoundTrip ==
    \/ InjectRT
    \/ PublishRequestR
    \/ TickR
    \/ AcknowledgeRT

SpecRoundTrip == InitRoundTrip /\ [][NextRoundTrip]_vars

\* every injected message has been handed to the publish engine
AllServed ==
    /\ subscription._pending_notifications = <<>>
    /\ subscription._sequence_number_generator > SequenceNumberGenerator

\* C25: with N < maxNotificationMessagesInQueue messages injected, every
\* served publish request hands the publish engine exactly one message, the
\* next in allocation order with the content it was injected with; when all
\* are served the last one was number N and sent holds the N messages less
\* the acknowledged ones; and once each has been acknowledged the sent queue
\* is empty and _unacknowledgedMessageCount is 0
C25_RoundTrip ==
    [][ subscription._sequence_number_generator - 1 < maxNotificationMessagesInQueue =>
          /\ TickStep =>
                /\ Len(SentMessages(out')) = 1
                /\ SentMessages(out')[1].sequenceNumber = hist.lastSent + 1
                /\ SentMessages(out')[1].notificationData
                     = <<DataChangeNotification(<<hist.lastSent + 1>>)>>
                /\ ~SentMessages(out')[1].initial
                /\ SentMessages(out')[1].moreNotifications
                     = (hist.lastSent + 1 < subscription._sequence_number_generator - 1)
                /\ publishEngine'.pendingPublishRequestCount
                     = publishEngine.pendingPublishRequestCount - 1
          /\ AllServed' =>
                /\ hist'.lastSent = subscription'._sequence_number_generator - 1
                /\ SeqNums(subscription'._sent_notifications)
                     = Allocated \ hist'.acked
                /\ Increasing(subscription'._sent_notifications)
                /\ subscription'._unacknowledgedMessageCount
                     = Len(subscription'._sent_notifications)
          /\ (AllServed' /\ hist'.acked = Allocated) =>
                /\ subscription'._sent_notifications = <<>>
                /\ subscription'._unacknowledgedMessageCount = 0 ]_vars

\* the round trip of 99 messages is complete
C25_Witness ==
    /\ subscription._sequence_number_generator = maxNotificationMessagesInQueue
    /\ hist.lastSent = maxNotificationMessagesInQueue - 1
    /\ hist.acked = 1..(maxNotificationMessagesInQueue - 1)
    /\ subscription._pending_notifications = <<>>
    /\ subscription._sent_notifications = <<>>
    /\ subscription._unacknowledgedMessageCount = 0

---------------------------------------------------------------------------
(* What is available for retransmission *)

\* C26: when send_notification_message is invoked for message s,
\* getAvailableSequenceNumbers() returns the numbers of the entries of sent in
\* send order, s being the last; every message is handed over in its turn;
\* and afterwards, as long as s is neither acknowledged nor discarded, the
\* list getAvailableSequenceNumbers() returns is the numbers of sent in send
\* order and contains s
C26_AvailableUntilAcknowledged ==
    [][ /\ \A i \in 1..Len(SentMessages(out')) :
              LET response == SentMessages(out')[i]
              IN  ~response.initial =>
                    /\ response.sequenceNumber = hist.lastSent + 1
                    /\ response.availableSequenceNumbers # <<>>
                    /\ response.availableSequenceNumbers
                             [Len(response.availableSequenceNumbers)]
                         = response.sequenceNumber
                    /\ response.availableSequenceNumbers
                         = [j \in 1..Len(subscription'._sent_notifications) |->
                               subscription'._sent_notifications[j].sequenceNumber]
        /\ getAvailableSequenceNumbers(World')
              = [j \in 1..Len(subscription'._sent_notifications) |->
                    subscription'._sent_notifications[j].sequenceNumber]
        /\ Increasing(subscription'._sent_notifications)
        /\ \A s \in 1..hist'.lastSent :
              s \notin hist'.acked \cup hist'.discarded =>
                  \E j \in 1..Len(getAvailableSequenceNumbers(World')) :
                      getAvailableSequenceNumbers(World')[j] = s ]_vars

\* messages 1 and 2 were acknowledged, the discard pass has taken others, and
\* a message sent since is available
C26_Witness ==
    /\ hist.acked = {1, 2}
    /\ hist.discarded # {}
    /\ SentMessages(out) # <<>>
    /\ SentMessages(out)[1].availableSequenceNumbers = <<hist.lastSent>>

---------------------------------------------------------------------------
(* The acknowledgeable condition as a state machine: a condition with or   *)
(* without ConfirmedState, its current branch and one historical branch,   *)
(* driven by the Acknowledge and Confirm methods and by the server-side    *)
(* setters.                                                                *)

Branches == {0, 1}

Comments == {"c1", "c2"}

\* hist.audits counts, per branch, the AuditConditionAcknowledgeEventType
\* events raised so far (2 stands for "more than one"); hist.resets holds the
\* branches whose ackedState went back to false
ObserveCondition(w) ==
    [w EXCEPT !.hist.audits =
                  [b \in Branches |->
                      Min(2, @[b] + Cardinality(
                          {i \in 1..Len(w.out) :
                              /\ w.out[i].call = "raiseEvent"
                              /\ w.out[i].name = "AuditConditionAcknowledgeEventType"
                              /\ w.out[i].arg.eventId = getEventId(w, b)}))],
              !.hist.resets =
                  @ \cup {b \in Branches :
                             /\ condition.branches[b]._map["ackedState.id"].value
                             /\ ~getAckedState(w, b)}]

InitCondition ==
    /\ subscription = Subscription(DefaultOptions)
    /\ publishEngine = [pendingPublishRequestCount |-> 0]
    /\ g_monitoredItemId = 1
    /\ immediate = 0
    /\ out = <<>>
    /\ hist = [options |-> DefaultOptions, lastSent |-> 0, acked |-> {},
               discarded |-> {}, transferred |-> {}, terminated |-> 0,
               closed |-> 0, audits |-> [b \in Branches |-> 0], resets |-> {},
               keepAlive |-> [numbers |-> {}, count |-> 0, next |-> {}]]
    /\ \E withConfirmedState \in BOOLEAN :
          condition = UAAcknowledgeableConditionBase_instantiate(
                          withConfirmedState, FALSE, FALSE)

AcknowledgeMethod ==
    \E b \in Branches, comment \in Comments :
        Apply(ObserveCondition(_acknowledge_method(World, getEventId(World, b), comment)))

ConfirmMethod ==
    /\ condition.confirmedState
    /\ \E b \in Branches, comment \in Comments :
          Apply(ObserveCondition(_confirm_method(World, getEventId(World, b), comment)))

SetAckedState ==
    \E b \in Branches, ackedState \in BOOLEAN :
        Apply(ObserveCondition(setAckedState(World, b, ackedState)))

SetConfirmedState ==
    /\ condition.confirmedState
    /\ \E b \in Branches, confirmedState \in BOOLEAN :
          Apply(ObserveCondition(setConfirmedState(World, b, confirmedState)))

\* the server acknowledges and confirms a branch in one go; autoConfirmBranch
\* reads confirmedState, which only a condition with ConfirmedState has
AcknowledgeAndAutoConfirm ==
    /\ condition.confirmedState
    /\ \E b \in Branches, comment \in Comments :
          Apply(ObserveCondition(acknowledgeAndAutoConfirmBranch(World, b, comment)))

NextCondition ==
    \/ AcknowledgeMethod
    \/ AcknowledgeAndAutoConfirm
    \/ ConfirmMethod
    \/ SetAckedState
    \/ SetConfirmedState

SpecCondition == InitCondition /\ [][NextCondition]_vars

\* the stored text of a two-state variable of a branch
TextOf(w, b, varName) == w.cond.branches[b]._map[varName].value.text

\* the variables a condition has
TwoStateVariables(w) ==
    IF w.cond.confirmedState THEN {"ackedState", "confirmedState"}
    ELSE {"ackedState"}

\* the .id variant is a Boolean and the text is the label of its value
Paired(w, b, varName) ==
    /\ w.cond.branches[b]._map[idKeyOf(varName)].dataType = "Boolean"
    /\ w.cond.branches[b]._map[varName].dataType = "LocalizedText"
    /\ TextOf(w, b, varName)
         = IF _get_twoStateVariable(w, b, varName)
           THEN _trueState(varName) ELSE _falseState(varName)

\* C27: after _set_twoStateVariable(V, b) the snapshot holds V.id = b and
\* V = the text of trueState or falseState; the pairing of ackedState and
\* of confirmedState (where the condition has one) holds in every state
\* reached by acknowledge, confirm, setAckedState and setConfirmedState
C27_TwoStateVariablesPaired ==
    /\ \A b \in Branches : \A varName \in TwoStateVariables(World) :
          /\ Paired(World, b, varName)
          /\ \A value \in BOOLEAN :
                LET w == _set_twoStateVariable(World, b, varName, value)
                IN  /\ _get_twoStateVariable(w, b, varName) = value
                    /\ TextOf(w, b, varName)
                         = (IF value THEN _trueState(varName) ELSE _falseState(varName))
                    /\ Paired(w, b, varName)
    /\ condition.node = [varName \in TwoStateVariables(World) |->
                            _get_twoStateVariable(World, 0, varName)]

\* the historical branch is acknowledged and unconfirmed while the current
\* one is unacknowledged and confirmed
C27_Witness ==
    /\ condition.confirmedState
    /\ TextOf(World, 1, "ackedState") = "Acknowledged"
    /\ TextOf(World, 1, "confirmedState") = "Unconfirmed"
    /\ TextOf(World, 0, "ackedState") = "Unacknowledged"
    /\ TextOf(World, 0, "confirmedState") = "Confirmed"
    /\ Calls(out, "emit", "value_changed") # <<>>

\* the status an Acknowledge call answered with
AcknowledgeStatus(trace) == Calls(trace, "return", "Acknowledge")[1].arg

\* C28: on a condition without ConfirmedState, the Acknowledge method
\* answers Good for an unacknowledged branch and, called again with the same
\* eventId, BadConditionBranchAlreadyAcked
C28_SecondAcknowledgeRejected ==
    [][ \A b \in Branches, comment \in Comments :
          ( /\ ~condition.confirmedState
            /\ Calls(out', "return", "Acknowledge") # <<>>
            /\ Apply(ObserveCondition(
                   _acknowledge_method(World, getEventId(World, b), comment))) )
          => /\ (~getAckedState(World, b) /\ hist.audits[b] = 0)
                  => AcknowledgeStatus(out') = "Good"
             /\ (getAckedState(World, b) /\ hist.audits[b] = 1)
                  => AcknowledgeStatus(out') = "BadConditionBranchAlreadyAcked" ]_vars

\* the AuditConditionAcknowledgeEventType events of a trace
AcknowledgeAudits(trace) ==
    Calls(trace, "raiseEvent", "AuditConditionAcknowledgeEventType")

\* C29: an acknowledge of a branch whose ackedState is already true raises
\* no AuditConditionAcknowledgeEventType, publishes no new branch state,
\* emits no "acknowledged" and leaves the comment of the branch alone; a
\* branch whose ackedState never went back to false has had at most one
\* AuditConditionAcknowledgeEventType
C29_RejectedAcknowledgeIsSilent ==
    [][ /\ \A b \in Branches, comment \in Comments :
            ( /\ getAckedState(World, b)
              /\ Calls(out', "return", "Acknowledge") # <<>>
              /\ Apply(ObserveCondition(
                     _acknowledge_method(World, getEventId(World, b), comment))) )
            => /\ AcknowledgeAudits(out') = <<>>
               /\ Calls(out', "condition", "raiseNewBranchState") = <<>>
               /\ Calls(out', "emit", "acknowledged") = <<>>
               /\ getComment(World', b) = getComment(World, b)
               /\ hist'.audits = hist.audits
        /\ \A b \in Branches :
              b \notin hist'.resets => hist'.audits[b] <= 1 ]_vars

\* the current branch was acknowledged with "c1" and then again with another
\* comment: the second call raised nothing and the comment is still "c1"
C29_Witness ==
    /\ getAckedState(World, 0)
    /\ hist.audits[0] = 1
    /\ 0 \notin hist.resets
    /\ ~getAckedState(World, 1)
    /\ hist.audits[1] = 0
    /\ getComment(World, 0) = "c1"
    /\ Calls(out, "return", "Acknowledge") # <<>>
    /\ AcknowledgeAudits(out) = <<>>

\* after a reset of ackedState the branch is acknowledged a second time
C29_WitnessReset ==
    /\ 0 \in hist.resets
    /\ hist.audits[0] = 2
    /\ AcknowledgeAudits(out) # <<>>

\* the trace of a successful acknowledge of branch b: value changes only,
\* then the branch as it ends up is published, then the audit event, then
\* "acknowledged", then the answer
AcknowledgedInOrder(trace, w, b, comment) ==
    LET n == Len(trace)
    IN  /\ n >= 5
        /\ \A i \in 1..(n - 4) :
              trace[i].call = "emit" /\ trace[i].name = "value_changed"
        /\ trace[n - 3].call = "condition"
        /\ trace[n - 3].name = "raiseNewBranchState"
        /\ trace[n - 3].arg = w.cond.branches[b]
        /\ trace[n - 2].call = "raiseEvent"
        /\ trace[n - 2].name = "AuditConditionAcknowledgeEventType"
        /\ trace[n - 2].arg.eventId = getEventId(w, b)
        /\ trace[n - 2].arg.comment = comment
        /\ trace[n - 1].call = "emit"
        /\ trace[n - 1].name = "acknowledged"
        /\ trace[n - 1].arg = [eventId |-> getEventId(w, b), comment |-> comment,
                               branch |-> b]
        /\ trace[n].call = "return"

\* C30: a successful acknowledge of an unacknowledged branch leaves
\* ackedState = true and the given comment; with ConfirmedState it leaves
\* confirmedState = false and retain = true, without it retain = false; the
\* branch state is then published, AuditConditionAcknowledgeEventType raised
\* and "acknowledged" emitted, in that order, after all the state updates
C30_AcknowledgeEffect ==
    [][ \A b \in Branches, comment \in Comments :
          ( /\ ~getAckedState(World, b)
            /\ Calls(out', "return", "Acknowledge") # <<>>
            /\ Apply(ObserveCondition(
                   _acknowledge_method(World, getEventId(World, b), comment))) )
          => /\ getAckedState(World', b)
             /\ getComment(World', b) = comment
             /\ IF condition.confirmedState
                THEN /\ ~getConfirmedState(World', b)
                     /\ condition'.branches[b].retain
                ELSE ~condition'.branches[b].retain
             /\ \A other \in Branches \ {b} :
                   condition'.branches[other] = condition.branches[other]
             /\ AcknowledgedInOrder(out', World', b, comment) ]_vars

\* the historical branch, whose ackedState had been reset, is acknowledged
\* with "c2" and is now unconfirmed and retained
C30_Witness ==
    /\ condition.confirmedState
    /\ 1 \in hist.resets
    /\ getAckedState(World, 1)
    /\ ~getConfirmedState(World, 1)
    /\ condition.branches[1].retain
    /\ getComment(World, 1) = "c2"
    /\ Calls(out, "emit", "acknowledged") # <<>>
    /\ Calls(out, "emit", "acknowledged")[1].arg.branch = 1
    /\ Len(Calls(out, "emit", "value_changed")) = 2

\* on a condition without ConfirmedState the acknowledged branch is not
\* retained
C30_WitnessNoConfirmedState ==
    /\ ~condition.confirmedState
    /\ getAckedState(World, 0)
    /\ ~condition.branches[0].retain
    /\ getComment(World, 0) = "c1"
    /\ Calls(out, "emit", "acknowledged") # <<>>
    /\ Calls(out, "emit", "acknowledged")[1].arg.branch = 0

\* the trace of a successful Confirm of branch b: the value change, then the
\* comment audit event, the confirm audit event, the branch as it ends up,
\* "confirmed" and the answer Good
ConfirmedInOrder(trace, w, b, comment) ==
    /\ Len(trace) = 6
    /\ trace[1].call = "emit" /\ trace[1].name = "value_changed"
    /\ trace[2].call = "raiseEvent"
    /\ trace[2].name = "AuditConditionCommentEventType"
    /\ trace[2].arg = [message |-> "Method/Confirm", eventId |-> getEventId(w, b),
                       comment |-> comment]
    /\ trace[3].call = "raiseEvent"
    /\ trace[3].name = "AuditConditionConfirmEventType"
    /\ trace[3].arg.eventId = getEventId(w, b)
    /\ trace[3].arg.comment = comment
    /\ trace[4].call = "condition"
    /\ trace[4].name = "raiseNewBranchState"
    /\ trace[4].arg = w.cond.branches[b]
    /\ trace[5].call = "emit"
    /\ trace[5].name = "confirmed"
    /\ trace[5].arg = [eventId |-> getEventId(w, b), comment |-> comment, branch |-> b]
    /\ trace[6] = [call |-> "return", name |-> "Confirm", arg |-> "Good"]

\* C31: a Confirm on a branch whose confirmedState is false leaves
\* confirmedState = true, retain = false and the given comment, raises
\* AuditConditionCommentEventType, then AuditConditionConfirmEventType, then
\* publishes the branch state, then emits "confirmed", and returns Good
C31_ConfirmEffect ==
    [][ \A b \in Branches, comment \in Comments :
          ( /\ condition.confirmedState
            /\ ~getConfirmedState(World, b)
            /\ Calls(out', "return", "Confirm") # <<>>
            /\ Apply(ObserveCondition(
                   _confirm_method(World, getEventId(World, b), comment))) )
          => /\ getConfirmedState(World', b)
             /\ ~condition'.branches[b].retain
             /\ getComment(World', b) = comment
             /\ getAckedState(World', b) = getAckedState(World, b)
             /\ \A other \in Branches \ {b} :
                   condition'.branches[other] = condition.branches[other]
             /\ ConfirmedInOrder(out', World', b, comment) ]_vars

\* the current branch was acknowledged with "c1", so that it was retained,
\* and then confirmed with "c2"
C31_Witness ==
    /\ condition.confirmedState
    /\ getAckedState(World, 0)
    /\ hist.audits[0] = 1
    /\ getConfirmedState(World, 0)
    /\ ~condition.branches[0].retain
    /\ getComment(World, 0) = "c2"
    /\ Calls(out, "emit", "confirmed") # <<>>
    /\ Calls(out, "emit", "confirmed")[1].arg.branch = 0

\* C32: a Confirm method call on a branch whose confirmedState is already
\* true returns BadConditionBranchAlreadyConfirmed, leaves the condition as
\* it was and raises no audit event and no "confirmed"
C32_SecondConfirmRejected ==
    [][ \A b \in Branches, comment \in Comments :
          ( /\ condition.confirmedState
            /\ getConfirmedState(World, b)
            /\ Calls(out', "return", "Confirm") # <<>>
            /\ Apply(ObserveCondition(
                   _confirm_method(World, getEventId(World, b), comment))) )
          => /\ condition' = condition
             /\ out' = << [call |-> "return", name |-> "Confirm",
                           arg |-> "BadConditionBranchAlreadyConfirmed"] >> ]_vars

\* both branches are confirmed, the current one with "c1", and the last
\* Confirm was turned down
C32_Witness ==
    /\ condition.confirmedState
    /\ getConfirmedState(World, 0)
    /\ getConfirmedState(World, 1)
    /\ getComment(World, 0) = "c1"
    /\ Calls(out, "return", "Confirm") # <<>>
    /\ Calls(out, "return", "Confirm")[1].arg = "BadConditionBranchAlreadyConfirmed"

\* C33: an acknowledge turned down because the branch is already
\* acknowledged leaves the whole branch unchanged; on a condition with
\* ConfirmedState a branch acknowledged and then confirmed keeps
\* confirmedState = true and retain = false
C33_RejectedAcknowledgeChangesNothing ==
    [][ \A b \in Branches, comment \in Comments :
          ( /\ getAckedState(World, b)
            /\ Calls(out', "return", "Acknowledge") # <<>>
            /\ Apply(ObserveCondition(
                   _acknowledge_method(World, getEventId(World, b), comment))) )
          => /\ condition'.branches[b] = condition.branches[b]
             /\ (condition.confirmedState /\ getConfirmedState(World, b)
                    /\ ~condition.branches[b].retain)
                  => /\ getConfirmedState(World', b)
                     /\ ~condition'.branches[b].retain ]_vars

\* the position of the first entry of that call and name in a trace, 0 if
\* there is none
FirstAt(trace, call, name) ==
    LET at == {i \in 1..Len(trace) : trace[i].call = call /\ trace[i].name = name}
    IN  IF at = {} THEN 0 ELSE CHOOSE i \in at : \A j \in at : i <= j

\* the last call was a server-side acknowledge-and-confirm: it answered
\* nothing and ended with "confirmed"
ServerConfirmed(trace) ==
    /\ Calls(trace, "return", "Acknowledge") = <<>>
    /\ Calls(trace, "return", "Confirm") = <<>>
    /\ Calls(trace, "emit", "confirmed") # <<>>

\* C34: on a condition with ConfirmedState and a branch with ackedState =
\* false, acknowledgeAndAutoConfirmBranch ends with ackedState = true,
\* confirmedState = true, retain = false and the given comment, raises
\* AuditConditionAcknowledgeEventType before AuditConditionCommentEventType
\* before AuditConditionConfirmEventType and emits "acknowledged" before
\* "confirmed"
C34_AcknowledgeAndAutoConfirm ==
    [][ \A b \in Branches, comment \in Comments :
          ( /\ condition.confirmedState
            /\ ~getAckedState(World, b)
            /\ ServerConfirmed(out')
            /\ Apply(ObserveCondition(
                   acknowledgeAndAutoConfirmBranch(World, b, comment))) )
          => /\ getAckedState(World', b)
             /\ getConfirmedState(World', b)
             /\ ~condition'.branches[b].retain
             /\ getComment(World', b) = comment
             /\ Len(AcknowledgeAudits(out')) = 1
             /\ Len(Calls(out', "raiseEvent", "AuditConditionCommentEventType")) = 1
             /\ Len(Calls(out', "raiseEvent", "AuditConditionConfirmEventType")) = 1
             /\ Len(Calls(out', "emit", "acknowledged")) = 1
             /\ Len(Calls(out', "emit", "confirmed")) = 1
             /\ FirstAt(out', "raiseEvent", "AuditConditionAcknowledgeEventType")
                  < FirstAt(out', "raiseEvent", "AuditConditionCommentEventType")
             /\ FirstAt(out', "raiseEvent", "AuditConditionCommentEventType")
                  < FirstAt(out', "raiseEvent", "AuditConditionConfirmEventType")
             /\ FirstAt(out', "emit", "acknowledged") < FirstAt(out', "emit", "confirmed") ]_vars

\* the historical branch was acknowledged and confirmed in one go with "c2"
C34_Witness ==
    /\ condition.confirmedState
    /\ ServerConfirmed(out)
    /\ Calls(out, "emit", "acknowledged") # <<>>
    /\ Calls(out, "emit", "confirmed")[1].arg.branch = 1
    /\ getAckedState(World, 1)
    /\ getConfirmedState(World, 1)
    /\ ~condition.branches[1].retain
    /\ getComment(World, 1) = "c2"
    /\ hist.audits[1] = 1

---------------------------------------------------------------------------
(* A subscription that alternates keep-alives and notification messages:   *)
(* the publishing run with a record of the keep-alives sent since the last *)
(* message was enqueued.                                                   *)

\* the sequence numbers the keep-alives of a trace went out with
KeepAliveNumbers(trace) ==
    LET calls == Calls(trace, "publishEngine", "send_keep_alive_response")
    IN  {calls[i].arg.sequenceNumber :
            i \in {j \in 1..Len(calls) : calls[j].arg.result}}

\* the sequence numbers of the messages a subscription holds
HeldNumbers(sub) ==
    SeqNums(sub._pending_notifications) \cup SeqNums(sub._sent_notifications)

\* hist.keepAlive.numbers holds the numbers of the keep-alives sent since the
\* last message was enqueued and count how many there were (2 stands for
\* "more than one"); next holds the numbers of the first messages enqueued
\* after a keep-alive
ObserveKeepAlive(w) ==
    LET enqueued == HeldNumbers(w.sub) \ HeldNumbers(subscription)
        sent == KeepAliveNumbers(w.out)
    IN  [w EXCEPT !.hist.keepAlive =
            IF enqueued # {}
            THEN [numbers |-> {}, count |-> 0,
                  next |-> IF @.count > 0
                           THEN @.next \cup
                                  {n \in enqueued : \A other \in enqueued : n <= other}
                           ELSE @.next]
            ELSE IF sent # {}
            THEN [@ EXCEPT !.numbers = @ \cup sent, !.count = Min(2, @ + 1)]
            ELSE @]

InitKeepAlive == \E options \in Options : InitWith(options)

TickK ==
    /\ subscription.timerId # "null"
    /\ subscription.publishIntervalCount < MaxTicks
    /\ Apply(ObserveKeepAlive(_tick(World)))

ImmediateTickK ==
    /\ immediate > 0
    /\ Apply(ObserveKeepAlive(_tick([World EXCEPT !.imm = @ - 1])))

\* the other calls of the run neither send a keep-alive nor enqueue a message
NextKeepAlive ==
    \/ TickK
    \/ ImmediateTickK
    \/ PublishRequest
    \/ CreateValidMonitoredItem
    \/ NotificationArrives

SpecKeepAlive == InitKeepAlive /\ [][NextKeepAlive]_vars

\* C35: a keep-alive does not consume a sequence number: the keep-alives
\* sent with no message enqueued in between all carry the same number k, the
\* next message enqueued gets k, and no call both sends a keep-alive and
\* enqueues a message
C35_KeepAliveConsumesNoNumber ==
    [][ LET enqueued == HeldNumbers(subscription') \ HeldNumbers(subscription)
            sent == KeepAliveNumbers(out')
        IN  /\ Cardinality(hist'.keepAlive.numbers) <= 1
            /\ sent # {} =>
                  /\ enqueued = {}
                  /\ sent = {_get_future_sequence_number(World')}
                  /\ hist.keepAlive.count > 0 => sent = hist.keepAlive.numbers
            /\ (enqueued # {} /\ hist.keepAlive.count > 0) =>
                  /\ hist.keepAlive.numbers \subseteq enqueued
                  /\ \A n \in enqueued : \A k \in hist.keepAlive.numbers : k <= n ]_vars

\* two keep-alives carrying 2 went out after message 1
C35_Witness ==
    /\ hist.keepAlive.count = 2
    /\ hist.keepAlive.numbers = {2}
    /\ KeepAliveNumbers(out) = {2}

\* message 2 was enqueued after a keep-alive that carried 2
C35_WitnessNext ==
    /\ 2 \in hist.keepAlive.next
    /\ 2 \in HeldNumbers(subscription)

---------------------------------------------------------------------------
(* Re-entrance: the publish engine calls back into the subscription from   *)
(* inside send_notification_message or send_keep_alive_response, before it *)
(* returns.  The _reentrant operators are the handlers with that call made *)
(* at the point where the publish engine is invoked.                       *)

Reentries == {"terminate", "acknowledgeNotification", "process_subscription"}

\* what the publish engine does to the subscription before it returns;
\* sequenceNumber is the number of the message being sent, 0 for a keep-alive
Reenter(w, reenter, sequenceNumber) ==
    CASE reenter = "terminate" -> terminate(w)
      [] reenter = "acknowledgeNotification" /\ sequenceNumber # 0 ->
             acknowledgeNotification(w, sequenceNumber)
      [] reenter = "process_subscription" /\ w.pe.pendingPublishRequestCount > 0 ->
             process_subscription(w)
      [] OTHER -> w

_publish_pending_notifications_reentrant(w, reenter) ==
    LET w1 == emit(w, "notification", 0)
        popped == _popNotificationToSend(w1)
        notificationMessage == popped.notification_message
        w2 == emit(popped.world, "notificationMessage",
                   notificationMessage.sequenceNumber)
        moreNotifications == hasPendingNotifications(w2)
        w3 == Reenter(send_notification_message(w2,
                          [sequenceNumber    |-> notificationMessage.sequenceNumber,
                           notificationData  |-> notificationMessage.notificationData,
                           moreNotifications |-> moreNotifications], FALSE),
                      reenter, notificationMessage.sequenceNumber)
        w4 == resetLifeTimeAndKeepAliveCounters(
                  [w3 EXCEPT !.sub.messageSent = TRUE,
                             !.sub._unacknowledgedMessageCount = @ + 1])
    IN  IF w4.sub.state # "CLOSED"
        THEN [w4 EXCEPT !.sub.state = "NORMAL"]
        ELSE w4

_sendKeepAliveResponse_reentrant(w, reenter) ==
    LET future_sequence_number == _get_future_sequence_number(w)
        w1 == Reenter(send_keep_alive_response(w, future_sequence_number), reenter, 0)
    IN  IF send_keep_alive_response_result(w)
        THEN [emit([w1 EXCEPT !.sub.messageSent = TRUE],
                   "keepalive", future_sequence_number)
                 EXCEPT !.sub.state = "KEEPALIVE"]
        ELSE w1

_process_keepAlive_reentrant(w, reenter) ==
    LET w1 == increaseKeepAliveCounter(w)
    IN  IF keepAliveCounterHasExpired(w1)
        THEN IF _sendKeepAliveResponse_result(w1)
             THEN resetLifeTimeAndKeepAliveCounters(
                      _sendKeepAliveResponse_reentrant(w1, reenter))
             ELSE [_sendKeepAliveResponse_reentrant(w1, reenter)
                      EXCEPT !.sub.state = "LATE"]
        ELSE w1

process_subscription_reentrant(w, reenter) ==
    IF ~w.sub.publishingEnabled
    THEN _process_keepAlive_reentrant(w, reenter)
    ELSE LET w1 == IF hasPendingNotifications(w) THEN w
                   ELSE get_hasMonitoredItemNotifications(w)
             w2 == IF ~hasPendingNotifications(w) /\ hasMonitoredItemNotifications(w)
                   THEN _harvestMonitoredItems(w1)
                   ELSE w1
         IN  IF hasPendingNotifications(w2)
             THEN LET w3 == _publish_pending_notifications_reentrant(w2, reenter)
                  IN  IF w3.sub.state = "NORMAL" /\ hasPendingNotifications(w3)
                      THEN [w3 EXCEPT !.imm = @ + 1]
                      ELSE w3
             ELSE _process_keepAlive_reentrant(w2, reenter)

\* the client queues a publish request; a second one lets the publish
\* engine ask for more from inside a send
PublishRequestTwice ==
    /\ publishEngine.pendingPublishRequestCount < MaxRequests + 1
    /\ Apply([World EXCEPT !.pe.pendingPublishRequestCount = @ + 1])

\* process_subscription on an open subscription, with the publish engine
\* calling back
ProcessSubscriptionReentrant ==
    /\ subscription.state # "CLOSED"
    /\ subscription.publishIntervalCount < MaxTicks
    /\ publishEngine.pendingPublishRequestCount > 0
    /\ \E reenter \in Reentries :
          Apply(process_subscription_reentrant(World, reenter))

NextReenter ==
    \/ CreateValidMonitoredItem
    \/ NotificationArrives
    \/ PublishRequestTwice
    \/ Tick
    \/ ImmediateTick
    \/ ProcessSubscriptionReentrant

SpecReenter == InitPublish /\ [][NextReenter]_vars

\* the last call ran terminate from inside a send
TerminatedInside(trace) ==
    /\ Calls(trace, "emit", "terminated") # <<>>
    /\ \/ Calls(trace, "publishEngine", "send_notification_message") # <<>>
       \/ Calls(trace, "publishEngine", "send_keep_alive_response") # <<>>

\* C36: when the publish engine calls terminate, acknowledgeNotification
\* (for the message being sent) or process_subscription from inside
\* send_notification_message or send_keep_alive_response, the subscription
\* satisfies its invariants once the outer call is over: terminated inside
\* the callback it is CLOSED with its timer stopped, and
\* _unacknowledgedMessageCount is the size of the sent queue if it was before
C36_ReentranceKeepsInvariants ==
    [][ \A reenter \in Reentries :
          ( /\ subscription.state # "CLOSED"
            /\ publishEngine.pendingPublishRequestCount > 0
            /\ Apply(process_subscription_reentrant(World, reenter)) )
          => /\ TerminatedInside(out') =>
                   /\ subscription'.state = "CLOSED"
                   /\ subscription'.timerId = "null"
             /\ subscription._unacknowledgedMessageCount
                    = Len(subscription._sent_notifications)
                  => subscription'._unacknowledgedMessageCount
                       = Len(subscription'._sent_notifications) ]_vars

---------------------------------------------------------------------------
(* A publishing run that is terminated while an immediate extra tick may   *)
(* still be queued.                                                        *)

TerminateOpen ==
    /\ subscription.state # "CLOSED"
    /\ Apply(terminate(World))

NextStopped ==
    \/ CreateValidMonitoredItem
    \/ NotificationArrives
    \/ PublishRequest
    \/ Tick
    \/ ImmediateTick
    \/ TerminateOpen

SpecStopped == InitPublish /\ [][NextStopped]_vars

\* C37: a tick delivered while the state is CLOSED changes nothing:
\* publishIntervalCount, both counters, pending, sent, state and messageSent
\* are unchanged, no event is emitted and no publish-engine method is called
C37_ClosedTickChangesNothing ==
    [][ ( /\ subscription.state = "CLOSED"
          /\ \/ Apply(_tick(World))
             \/ immediate > 0 /\ Apply(_tick([World EXCEPT !.imm = @ - 1])) )
        => /\ subscription' = subscription
           /\ publishEngine' = publishEngine
           /\ out' = <<>> ]_vars

\* an immediate extra tick queued by a send has run after terminate: the
\* message it was meant to send is still pending and nothing was called
C37_Witness ==
    /\ subscription.state = "CLOSED"
    /\ subscription._pending_notifications # <<>>
    /\ subscription._sent_notifications # <<>>
    /\ publishEngine.pendingPublishRequestCount = 0
    /\ immediate = 0
    /\ out = <<>>

---------------------------------------------------------------------------
(* A publishing run whose client has a publish request ready at every      *)
(* tick: callbacks queued with setImmediate run and the client keeps        *)
(* sending publish requests.                                               *)

TickD ==
    /\ subscription.timerId # "null"
    /\ subscription.publishIntervalCount < MaxTicks
    /\ publishEngine.pendingPublishRequestCount > 0
    /\ Apply(_tick(World))

ImmediateTickD ==
    /\ immediate > 0
    /\ publishEngine.pendingPublishRequestCount > 0
    /\ Apply(_tick([World EXCEPT !.imm = @ - 1]))

NextDrain ==
    \/ CreateValidMonitoredItem
    \/ NotificationArrives
    \/ PublishRequest
    \/ TickD
    \/ ImmediateTickD

\* ENABLED <<ImmediateTickD>>_vars: the step always changes immediate or
\* publishIntervalCount
ImmediateTickDEnabled ==
    /\ immediate > 0
    /\ publishEngine.pendingPublishRequestCount > 0

\* the client keeps sending publish requests and a callback queued with
\* setImmediate runs (weak fairness of ImmediateTickD, its ENABLED written
\* out); nothing is assumed of the timer
SpecDrain ==
    /\ InitPublish
    /\ [][NextDrain]_vars
    /\ WF_vars(PublishRequest)
    /\ ([]<>(~ImmediateTickDEnabled) \/ []<><<ImmediateTickD>>_vars)

\* the call sent a message and left the subscription NORMAL with more pending
SentAndMorePending ==
    /\ SentMessages(out') # <<>>
    /\ subscription'._pending_notifications # <<>>
    /\ subscription'.state = "NORMAL"

\* C38: an immediate extra tick is scheduled exactly when, right after a
\* send, pending is still non-empty and the state is NORMAL; with a publish
\* request available at every tick and publishing enabled, every message
\* that enters pending is eventually dispatched and pending becomes empty
C38_ImmediateTickDrainsPending ==
    /\ [][ /\ ( (TickStep /\ Apply(_tick(World)))
                 => immediate' = immediate + (IF SentAndMorePending THEN 1 ELSE 0) )
            /\ ( (TickStep /\ immediate > 0
                     /\ Apply(_tick([World EXCEPT !.imm = @ - 1])))
                 => immediate' = (immediate - 1)
                                   + (IF SentAndMorePending THEN 1 ELSE 0) )
            /\ ( ~TickStep => immediate' = immediate ) ]_vars
    /\ \A n \in 1..MaxSeq :
          (n \in SeqNums(subscription._pending_notifications)) ~> (hist.lastSent >= n)
    /\ (subscription._pending_notifications # <<>>)
          ~> (subscription._pending_notifications = <<>>)

\* the second of two messages of one harvest went out on the immediate extra
\* tick, right after the first tick of the subscription
C38_Witness ==
    /\ subscription.publishIntervalCount = 2
    /\ subscription.maxNotificationsPerPublish = 1
    /\ hist.lastSent = 2
    /\ immediate = 0
    /\ subscription._pending_notifications = <<>>
    /\ SentMessages(out) # <<>>
    /\ SentMessages(out)[1].sequenceNumber = 2

---------------------------------------------------------------------------
(* The life-time counter over ticks, sends, keep-alives, modify and        *)
(* setPublishingMode calls in any order.                                   *)

OptionsLife ==
    [publishingInterval : {0}, maxKeepAliveCount : {0}, lifeTimeCount : {7},
     maxNotificationsPerPublish : {1}, publishingEnabled : {TRUE}]

InitLife == \E options \in OptionsLife : InitWith(options)

NextLife ==
    \/ Tick
    \/ ImmediateTick
    \/ PublishRequest
    \/ CreateValidMonitoredItem
    \/ NotificationArrives
    \/ Modify
    \/ SetPublishingMode

SpecLife == InitLife /\ [][NextLife]_vars

\* the value of _life_time_counter that the expiration check of the next
\* tick reads
CheckedLifeTimeCounter == increaseLifeTimeCounter(World).sub._life_time_counter

C39_WitnessReset ==
    /\ subscription.publishIntervalCount >= 2
    /\ subscription._life_time_counter = 0
    /\ Calls(out, "return", "setPublishingMode") # <<>>
    /\ subscription._sent_notifications # <<>>

---------------------------------------------------------------------------
(* The size of the retransmission queue when nothing is acknowledged.      *)

\* C40: after every tick of a run in which the client never acknowledged,
\* the sent queue holds at most maxNotificationMessagesInQueue entries
C40_SentQueueBounded ==
    [][(TickStep /\ hist'.acked = {}) =>
           Len(subscription'._sent_notifications) <= maxNotificationMessagesInQueue]_vars

\* a tick has filled the queue to maxNotificationMessagesInQueue entries
C40_Witness ==
    /\ hist.acked = {}
    /\ hist.discarded = {}
    /\ SentMessages(out) # <<>>
    /\ Len(subscription._sent_notifications) = maxNotificationMessagesInQueue

\* the tick after that has cut the queue and sent one more message
C40_WitnessDiscard ==
    /\ hist.acked = {}
    /\ hist.discarded # {}
    /\ SentMessages(out) # <<>>
    /\ subscription._sent_notifications # <<>>

====
